---- MODULE Spec2Model ----
(***************************************************************************)
(* Verification model of ralph: the orchestrator loop                      *)
(* (src/orchestrator/mod.rs), the durable store (src/state/mod.rs), the    *)
(* health watcher (src/watcher/mod.rs) and the parallel coordinator        *)
(* (src/watch/mod.rs).                                                     *)
(*                                                                         *)
(* Specifications:                                                         *)
(*   SpecSched      pick_next_task as a pure function                      *)
(*   SpecRoundTrip  save_tasks followed by load_tasks                      *)
(*   SpecValidate   validate_task_list / load_tasks on any list            *)
(*   SpecSlug       make_unique_slugs                                      *)
(*   Spec           orchestrator::run, one loop, abstract iterations       *)
(*   SpecCancel     run with the flag set during an iteration              *)
(*   SpecIter       run_iteration: child, readers, deadline, events        *)
(*   SpecStore      save_tasks / load_tasks step by step, with a reader    *)
(*   SpecWatch      watch: semaphore, loop tasks, join (SpecWatchFair,     *)
(*                  SpecWatchExit: the same with fairness)                 *)
(***************************************************************************)
EXTENDS Integers, Sequences, FiniteSets, TLC

\* ---------------------------------------------------------------- bounds
MaxTasks == 2
MaxPriority == 2
MaxDeps == 1
MaxIterationsArg == 2
MaxFailuresArg == 2

TaskIds == {"A", "B"}

\* the order in which stored lists name their tasks
IdRank(id) == IF id = "A" THEN 1 ELSE 2

\* ---------------------------------------------------------------- state
VARIABLES
    \* SpecSched: input list and result of the applied pure function
    pure_in, pure_out,
    \* Spec: orchestrator::run
    pc, args, available, task_list, tasks_file, lock_file, progress_md,
    hooks, loop_state, iteration, consecutive_failures, active_agent_name,
    cancel_flag, task, tasks_snapshot_before, logs, run_result, last_iter,
    state_dir, iterations_run, setup,
    \* SpecStore: one StateManager, save_tasks in steps (tasks_file is shared)
    save_pc, save_arg, tmp_file, save_result, file_before, last_saved,
    load_result, reader,
    \* SpecIter: one run_iteration with its child, readers and watcher
    clock, timeout_secs, stall_timeout_secs, low_disk, git_conflicts, child,
    child_end, exit_success, last_output_ts, collected, event_rx, watcher_pc,
    watcher_sends, stall_fired, tick_due, shutdown, iter_pc, outcome,
    iter_result,
    \* SpecWatch: the coordinator of ralph watch and its loop tasks
    w_pc, w_args, w_next, w_permits, w_loops, w_errors, w_cancel

pureVars == <<pure_in, pure_out>>
loopVars == <<pc, args, available, task_list, tasks_file, lock_file,
              progress_md, hooks, loop_state, iteration,
              consecutive_failures, active_agent_name, cancel_flag, task,
              tasks_snapshot_before, logs, run_result, last_iter, state_dir,
              iterations_run, setup>>
storeVars == <<save_pc, save_arg, tmp_file, save_result, file_before,
               last_saved, load_result, reader>>
iterVars == <<clock, timeout_secs, stall_timeout_secs, low_disk,
              git_conflicts, child, child_end, exit_success, last_output_ts,
              collected, event_rx, watcher_pc, watcher_sends, stall_fired,
              tick_due, shutdown, iter_pc, outcome, iter_result>>
watchVars == <<w_pc, w_args, w_next, w_permits, w_loops, w_errors, w_cancel>>
\* what orchestrator::run leaves alone
otherVars == <<pureVars, storeVars, iterVars, watchVars>>
vars == <<pureVars, loopVars, storeVars, iterVars, watchVars>>

\* ---------------------------------------------------------------- tasks
None == "None"

TaskStatus == {"Pending", "InProgress", "Complete", "Failed"}

\* depends_on: Vec<String>, here every sequence of up to MaxDeps ids that
\* names no id twice
DepSeqs ==
    {d \in UNION {[1..n -> TaskIds] : n \in 0..MaxDeps} :
        \A i, j \in DOMAIN d : i # j => d[i] # d[j]}

Task == [id : TaskIds, priority : 1..MaxPriority, status : TaskStatus,
         depends_on : DepSeqs, completed_at : {None}]

\* every Vec<Task> up to MaxTasks long (duplicate ids, unknown dependency
\* ids and cycles included: the scheduler takes any list)
AllTaskSeqs == UNION {[1..n -> Task] : n \in 0..MaxTasks}

Range(s) == {s[i] : i \in DOMAIN s}

\* a set of indices in ascending order
RECURSIVE Ascending(_)
Ascending(S) ==
    IF S = {} THEN <<>>
    ELSE LET m == CHOOSE x \in S : \A y \in S : x <= y
         IN  <<m>> \o Ascending(S \ {m})

\* Iterator::filter, as the indices of the elements kept, in order
FilterIdx(s, P(_)) == Ascending({i \in DOMAIN s : P(s[i])})

\* Iterator::min_by_key: a fold that keeps the accumulator unless the next
\* element is strictly smaller, so the first of several minima is returned
RECURSIVE MinByKeyFold(_, _, _, _)
MinByKeyFold(tasks, idxs, k, best) ==
    IF k > Len(idxs) THEN best
    ELSE MinByKeyFold(tasks, idxs, k + 1,
            IF tasks[idxs[k]].priority < tasks[best].priority
            THEN idxs[k] ELSE best)

\* pick_next_task without the min_by_key: the first eligible task wins
pick_first_eligible(tasks) ==
    LET complete_ids == {tasks[i].id : i \in {j \in DOMAIN tasks :
                                          tasks[j].status = "Complete"}}
        Eligible(t) == /\ t.status = "Pending"
                       /\ \A d \in DOMAIN t.depends_on :
                              t.depends_on[d] \in complete_ids
        idxs == FilterIdx(tasks, Eligible)
    IN  IF idxs = <<>> THEN 0 ELSE idxs[1]

\* pick_next_task: index into tasks of the returned &Task, 0 for Option::None
pick_next_task(tasks) ==
    LET complete_ids == {tasks[i].id : i \in {j \in DOMAIN tasks :
                                          tasks[j].status = "Complete"}}
        Eligible(t) == /\ t.status = "Pending"
                       /\ \A d \in DOMAIN t.depends_on :
                              t.depends_on[d] \in complete_ids
        idxs == FilterIdx(tasks, Eligible)
    IN  IF idxs = <<>> THEN 0
        ELSE MinByKeyFold(tasks, idxs, 2, idxs[1])

\* a completion test that only asks that nothing is pending
none_pending(tasks) ==
    \A i \in DOMAIN tasks : tasks[i].status # "Pending"

all_tasks_complete(tasks) ==
    \A i \in DOMAIN tasks : tasks[i].status = "Complete"

\* set_task_status: iter_mut().find(|t| t.id == task_id): the FIRST task
\* carrying the id is changed, nothing when there is none
FirstWithId(tasks, id) ==
    IF \E i \in DOMAIN tasks : tasks[i].id = id
    THEN CHOOSE i \in DOMAIN tasks :
            /\ tasks[i].id = id
            /\ \A j \in 1..(i - 1) : tasks[j].id # id
    ELSE 0

set_task_status(tasks, id, status) ==
    LET i == FirstWithId(tasks, id)
    IN  IF i = 0 THEN tasks
        ELSE [tasks EXCEPT ![i].status = status]

\* ------------------------------------------------------ validate_task_list
\* first loop: HashSet::insert fails on an id seen before
HasDuplicateId(tasks) ==
    \E i, j \in DOMAIN tasks : i < j /\ tasks[i].id = tasks[j].id

\* second loop: a dependency that is not a key of the indegree map
HasUnknownDep(tasks) ==
    \E i \in DOMAIN tasks : \E d \in DOMAIN tasks[i].depends_on :
        \A j \in DOMAIN tasks : tasks[j].id # tasks[i].depends_on[d]

\* outgoing[id] with one entry per task that names id, however often
RECURSIVE OutgoingOfOnce(_, _, _)
OutgoingOfOnce(tasks, id, i) ==
    IF i > Len(tasks) THEN <<>>
    ELSE (IF \E d \in DOMAIN tasks[i].depends_on :
                tasks[i].depends_on[d] = id
          THEN <<tasks[i].id>> ELSE <<>>)
         \o OutgoingOfOnce(tasks, id, i + 1)

\* outgoing[id]: one entry per (task, dependency occurrence) naming id
RECURSIVE OutgoingOf(_, _, _)
OutgoingOf(tasks, id, i) ==
    IF i > Len(tasks) THEN <<>>
    ELSE LET hits == FilterIdx(tasks[i].depends_on, LAMBDA d : d = id)
         IN  [k \in 1..Len(hits) |-> tasks[i].id] \o OutgoingOf(tasks, id, i + 1)

\* the inner for loop of the topological pass: decrement each dependent,
\* push it on the queue when its indegree reaches zero
RECURSIVE Relax(_, _, _, _)
Relax(dependents, k, indegree, queue) ==
    IF k > Len(dependents) THEN [indegree |-> indegree, queue |-> queue]
    ELSE LET d == dependents[k]
             n == indegree[d] - 1
         IN  Relax(dependents, k + 1, [indegree EXCEPT ![d] = n],
                   IF n = 0 THEN Append(queue, d) ELSE queue)

\* while let Some(id) = queue.pop_front(): returns the number visited
RECURSIVE Kahn(_, _, _, _)
Kahn(tasks, queue, indegree, visited) ==
    IF queue = <<>> THEN visited
    ELSE LET r == Relax(OutgoingOf(tasks, Head(queue), 1), 1, indegree,
                        Tail(queue))
         IN  Kahn(tasks, r.queue, r.indegree, visited + 1)

\* "ok", or the reason validate_task_list bails with
validate_task_list(tasks) ==
    IF HasDuplicateId(tasks) THEN "duplicate"
    ELSE IF HasUnknownDep(tasks) THEN "unknown_dep"
    ELSE LET ids == {tasks[i].id : i \in DOMAIN tasks}
             indegree == [id \in ids |->
                 Len(tasks[FirstWithId(tasks, id)].depends_on)]
             zero == FilterIdx(tasks, LAMBDA t : Len(t.depends_on) = 0)
             queue == [k \in 1..Len(zero) |-> tasks[zero[k]].id]
         IN  IF Kahn(tasks, queue, indegree, 0) # Len(tasks)
             THEN "circular" ELSE "ok"

\* ------------------------------------------------------------- tasks.json
\* serde: TaskStatus is written in snake_case
StatusToJson(s) ==
    CASE s = "Pending" -> "pending"
      [] s = "InProgress" -> "in_progress"
      [] s = "Complete" -> "complete"
      [] s = "Failed" -> "failed"

JsonStatuses == {"pending", "in_progress", "complete", "failed"}

StatusFromJson(j) ==
    CASE j = "pending" -> "Pending"
      [] j = "in_progress" -> "InProgress"
      [] j = "complete" -> "Complete"
      [] j = "failed" -> "Failed"

\* a Task as a JSON object: completed_at is left out when it is None
\* (skip_serializing_if = "Option::is_none")
TaskToJson(t) ==
    LET base == [id |-> t.id, priority |-> t.priority,
                 status |-> StatusToJson(t.status),
                 depends_on |-> t.depends_on]
    IN  IF t.completed_at = None THEN base
        ELSE [k \in DOMAIN base \cup {"completed_at"} |->
                 IF k = "completed_at" THEN t.completed_at ELSE base[k]]

\* serde_json::to_string(&task_list.tasks)
TasksToJson(tasks) == [i \in DOMAIN tasks |-> TaskToJson(tasks[i])]

\* a JSON object is a Task when the required fields are there and the
\* status is one of the four literals; depends_on defaults to empty, a
\* missing completed_at reads as None
IsTaskJson(o) ==
    /\ {"id", "priority", "status"} \subseteq DOMAIN o
    /\ o.status \in JsonStatuses

\* a Task read without its completed_at
TaskFromJsonUnstamped(o) ==
    [id |-> o.id, priority |-> o.priority,
     status |-> StatusFromJson(o.status),
     depends_on |-> IF "depends_on" \in DOMAIN o THEN o.depends_on ELSE <<>>,
     completed_at |-> None]

TaskFromJson(o) ==
    [id |-> o.id, priority |-> o.priority,
     status |-> StatusFromJson(o.status),
     depends_on |-> IF "depends_on" \in DOMAIN o THEN o.depends_on ELSE <<>>,
     completed_at |-> IF "completed_at" \in DOMAIN o THEN o.completed_at
                      ELSE None]

\* a file: absent, or the bytes written so far as a sequence of chunks.
\* tasks.json is an opening chunk with the header fields, one chunk per
\* task object and a closing chunk; a partial write is a proper prefix.
NoFile == [exists |-> FALSE, content |-> <<>>]

File(content) == [exists |-> TRUE, content |-> content]

Serialize(tl) ==
    <<[open |-> TRUE, prd_path |-> tl.prd_path]>>
    \o TasksToJson(tl.tasks)
    \o <<[close |-> TRUE]>>

\* serde_json::from_str::<TaskList>: an error unless the document is whole
\* and every task object deserializes
Deserialize(content) ==
    IF /\ Len(content) >= 2
       /\ "open" \in DOMAIN content[1]
       /\ "close" \in DOMAIN content[Len(content)]
       /\ \A i \in 2..(Len(content) - 1) : IsTaskJson(content[i])
    THEN [ok |-> TRUE,
          list |-> [prd_path |-> content[1].prd_path,
                    tasks |-> [i \in 1..(Len(content) - 2) |->
                                  TaskFromJson(content[i + 1])]]]
    ELSE [ok |-> FALSE]

\* StateManager::load_tasks: [kind |-> "none"] for Ok(None),
\* [kind |-> "some", list |-> ..] for Ok(Some(list)), [kind |-> "err"]
load_tasks(file) ==
    IF ~file.exists THEN [kind |-> "none"]
    ELSE LET d == Deserialize(file.content)
         IN  IF ~d.ok THEN [kind |-> "err"]
             ELSE IF validate_task_list(d.list.tasks) # "ok"
                  THEN [kind |-> "err"]
             ELSE [kind |-> "some", list |-> d.list]


\* ================================================================ Spec
\* orchestrator::run for one loop.  pc is the position in run:
\*   "start"    run was called, nothing done yet
\*   "load"     lock written and guarded, status Parsing, before load/parse
\*   "gate"     top of the main loop
\*   "running"  inside run_iteration, the agent child spawned (or failing to)
\*   "returned" run has returned; run_result is "ok" or "err"

FALLBACK_ORDER == <<"codex", "gemini", "claude", "opencode">>

OrchestratorPid == 1

PrimaryAgents == {"claude", "codex"}

\* which agent binaries answer --version on this host
AvailableSets == {{}, {"claude"}, {"claude", "codex", "gemini"}}

\* the requested agent together with the host it runs on
AgentSetups == {<<"claude", {}>>, <<"claude", {"claude"}>>,
                <<"claude", {"claude", "codex", "gemini"}>>,
                <<"codex", {"claude", "codex", "gemini"}>>}

RunArgs == [agent : PrimaryAgents,
            max_iterations : 0..MaxIterationsArg,
            max_failures : 0..MaxFailuresArg,
            dry_run : BOOLEAN]

\* task lists a tasks.json can hold when run starts: written by an earlier
\* run or by hand, so any status, but passing validation
StoredTask == [id : TaskIds, priority : 1..MaxPriority, status : TaskStatus,
               depends_on : DepSeqs, completed_at : {None}]

\* (ids in rank order, none twice: never more tasks than ids)
StoredLens ==
    {n \in 0..MaxTasks : n <= Cardinality(TaskIds)}

StoredTaskSeqs ==
    {ts \in UNION {[1..n -> StoredTask] : n \in StoredLens} :
        /\ validate_task_list(ts) = "ok"
        /\ \A i \in DOMAIN ts :
              /\ ts[i].completed_at # None => ts[i].status = "Complete"
              /\ \A j \in DOMAIN ts : i < j => IdRank(ts[i].id) < IdRank(ts[j].id)}

PrdPath == "prd.md"

TaskList(tasks) == [prd_path |-> PrdPath, tasks |-> tasks]

\* a tasks.json cut off in the middle: serde_json fails on it
CorruptFile == File(<<[open |-> TRUE, prd_path |-> PrdPath]>>)

InitialTasksFiles ==
    {NoFile, CorruptFile}
    \cup {File(Serialize(TaskList(ts))) : ts \in StoredTaskSeqs}

\* the files every combination of arguments is run on; every other file is
\* run for one iteration (the stored lists are closed under what an
\* iteration does to a list, so one iteration from each of them covers
\* every step the loop can take from any list)
BasicTasksFiles ==
    {NoFile,
     File(Serialize(TaskList(
        <<[id |-> "A", priority |-> 1, status |-> "Pending",
           depends_on |-> <<>>, completed_at |-> None]>>))),
     File(Serialize(TaskList(
        <<[id |-> "A", priority |-> 2, status |-> "Pending",
           depends_on |-> <<"B">>, completed_at |-> None],
          [id |-> "B", priority |-> 1, status |-> "Pending",
           depends_on |-> <<>>, completed_at |-> None]>>)))}

ShortRun(a, av) ==
    /\ a.max_iterations = 1
    /\ a.max_failures = MaxFailuresArg
    /\ ~a.dry_run
    /\ a.agent = "claude"
    /\ av = {"claude"}

\* what the PRD parser can hand back: parse_prd deserializes the agent's
\* JSON array into Vec<Task> and does not validate it
ParsedTaskSeqs ==
    {<<>>,
     <<[id |-> "A", priority |-> 1, status |-> "Pending",
        depends_on |-> <<>>, completed_at |-> None]>>,
     <<[id |-> "A", priority |-> 1, status |-> "Pending",
        depends_on |-> <<>>, completed_at |-> None],
       [id |-> "B", priority |-> 2, status |-> "Pending",
        depends_on |-> <<"A">>, completed_at |-> None]>>,
     <<[id |-> "A", priority |-> 1, status |-> "InProgress",
        depends_on |-> <<>>, completed_at |-> None]>>,
     <<[id |-> "A", priority |-> 1, status |-> "Pending",
        depends_on |-> <<>>, completed_at |-> None],
       [id |-> "A", priority |-> 2, status |-> "Pending",
        depends_on |-> <<>>, completed_at |-> None]>>,
     <<[id |-> "A", priority |-> 1, status |-> "Pending",
        depends_on |-> <<"A">>, completed_at |-> None]>>}

NoTask == [id |-> "none"]

NoIter == [iteration |-> 0, own_exit |-> FALSE, success |-> FALSE,
           blank |-> FALSE, marker |-> FALSE, stored_differs |-> FALSE,
           loads_differs |-> FALSE, fail |-> "none", outcome |-> "none",
           cancelled |-> FALSE]

\* how setup came by the task list: "loaded" from tasks.json, with the
\* number of tasks it found in_progress, or "parsed" from the PRD
NoSetup == [path |-> "none", reset_count |-> 0]

\* the parts of the state a specification does not use stay at these values
IdlePure == pure_in = <<>> /\ pure_out = [op |-> "none"]

\* watch has not been called
IdleWatch ==
    /\ w_pc = "idle"
    /\ w_args = [prds |-> 0, parallel |-> 0, max_iterations |-> 0,
                 agent_available |-> FALSE]
    /\ w_next = 0 /\ w_permits = 0
    /\ w_loops = <<>> /\ w_errors = <<>> /\ w_cancel = FALSE

\* no read of tasks.json is under way
NoReader == [pc |-> "idle"]

IdleStore ==
    /\ save_pc = "idle"
    /\ save_arg = TaskList(<<>>)
    /\ tmp_file = NoFile
    /\ save_result = "none"
    /\ file_before = NoFile
    /\ last_saved = [kind |-> "none"]
    /\ load_result = [kind |-> "unread"]
    /\ reader = NoReader

IdleIter ==
    /\ clock = 0 /\ timeout_secs = 0 /\ stall_timeout_secs = 0
    /\ low_disk = FALSE /\ git_conflicts = FALSE
    /\ child = "none" /\ child_end = 0 /\ exit_success = FALSE
    /\ last_output_ts = 0 /\ collected = <<>> /\ event_rx = <<>>
    /\ watcher_pc = "none" /\ watcher_sends = <<>> /\ stall_fired = FALSE
    /\ tick_due = FALSE /\ shutdown = FALSE
    /\ iter_pc = "idle" /\ outcome = "none" /\ iter_result = "none"

IdleLoop ==
    /\ pc = "idle"
    /\ args = [agent |-> "claude", max_iterations |-> 0, max_failures |-> 0,
               dry_run |-> FALSE]
    /\ available = {}
    /\ task_list = TaskList(<<>>)
    /\ lock_file = NoFile
    /\ state_dir = FALSE
    /\ progress_md = <<>>
    /\ hooks = <<>>
    /\ loop_state = "Starting"
    /\ iteration = 0
    /\ consecutive_failures = 0
    /\ active_agent_name = "claude"
    /\ cancel_flag = FALSE
    /\ task = NoTask
    /\ tasks_snapshot_before = <<>>
    /\ logs = {}
    /\ run_result = "none"
    /\ last_iter = NoIter
    /\ iterations_run = 0
    /\ setup = NoSetup

Init ==
    /\ IdlePure /\ IdleStore /\ IdleIter /\ IdleWatch
    /\ pc = "start"
    /\ args \in RunArgs
    /\ args.dry_run => args.max_iterations = 0 /\ args.max_failures = 0
    /\ available \in AvailableSets
    /\ <<args.agent, available>> \in AgentSetups
    /\ tasks_file \in InitialTasksFiles
    /\ ~ShortRun(args, available) => tasks_file \in BasicTasksFiles
    /\ task_list = TaskList(<<>>)
    /\ lock_file = NoFile
    /\ state_dir = FALSE
    /\ progress_md = <<>>
    /\ hooks = <<>>
    /\ loop_state = "Starting"
    /\ iteration = 0
    /\ consecutive_failures = 0
    /\ active_agent_name = args.agent
    /\ cancel_flag = FALSE
    /\ task = NoTask
    /\ tasks_snapshot_before = <<>>
    /\ logs = {}
    /\ run_result = "none"
    /\ last_iter = NoIter
    /\ iterations_run = 0
    /\ setup = NoSetup

\* LockGuard::drop -> StateManager::remove_lock
remove_lock == NoFile

\* every return of run after the LockGuard was created drops the guard
Return(result) ==
    /\ pc' = "returned"
    /\ run_result' = result
    /\ lock_file' = remove_lock

\* StateManager::write_lock: fs::write creates or truncates the file and
\* then writes the record.  It fails either in File::create, with the file
\* as it was, or in write_all, with the file created or truncated and the
\* record not (wholly) in it
write_lock(file, record, fail) ==
    CASE fail = "lock_create" -> file
      [] fail = "lock_write" -> File(<<>>)
      [] OTHER -> File(<<record>>)

\* StateManager::append_progress
append_progress(journal, entry) == Append(journal, entry)

\* a save that a set cancellation flag suppresses
save_tasks_unless_cancelled(tl) ==
    IF cancel_flag THEN tasks_file ELSE File(Serialize(tl))

\* StateManager::save_tasks, seen from run: the file is replaced as a whole
save_tasks(tl) == File(Serialize(tl))

\* run, lines 60-125: StateManager::new creates the state root, then the
\* availability check of the requested agent bails out
SetupAgentUnavailable ==
    /\ pc = "start"
    /\ args.agent \notin available
    /\ state_dir' = TRUE
    /\ pc' = "returned"
    /\ run_result' = "err"
    /\ UNCHANGED <<otherVars, args, available, task_list, tasks_file,
                   lock_file, progress_md, hooks, loop_state, iteration,
                   consecutive_failures, active_agent_name, cancel_flag,
                   task, tasks_snapshot_before, logs, last_iter,
                   iterations_run, setup>>

\* run, lines 60-183: state root, availability check, write_lock, LockGuard,
\* status Parsing.  write_lock(..)? returns before the guard exists.
SetupWriteLock(fail) ==
    /\ pc = "start"
    /\ args.agent \in available
    /\ state_dir' = TRUE
    /\ lock_file' = write_lock(lock_file,
                                [pid |-> OrchestratorPid,
                                 current_task |-> "starting"], fail)
    /\ IF fail \in {"lock_create", "lock_write"}
       THEN /\ pc' = "returned"
            /\ run_result' = "err"
            /\ UNCHANGED loop_state
       ELSE /\ loop_state' = "Parsing"
            /\ pc' = "load"
            /\ UNCHANGED run_result
    /\ UNCHANGED <<otherVars, args, available, task_list, tasks_file,
                   progress_md, hooks, iteration, consecutive_failures,
                   active_agent_name, cancel_flag, task,
                   tasks_snapshot_before, logs, last_iter, iterations_run,
                   setup>>

\* the loaded list taken as it is
KeepInProgress(tasks) == tasks

\* the in_progress reset of lines 221-229
ResetInProgress(tasks) ==
    [i \in DOMAIN tasks |->
        IF tasks[i].status = "InProgress"
        THEN [tasks[i] EXCEPT !.status = "Pending"]
        ELSE tasks[i]]

\* the tail of setup once task_list is known (lines 258-284)
EnterLoop(tl, fail) ==
    /\ task_list' = tl
    /\ loop_state' = "Running"
    /\ fail = "read_prd" => ~args.dry_run
    /\ IF args.dry_run
       THEN /\ Return("ok")
            /\ UNCHANGED <<iteration>>
       ELSE IF fail = "read_prd"
       THEN /\ Return("err")
            /\ UNCHANGED <<iteration>>
       ELSE /\ pc' = "gate"
            /\ iteration' = 1
            /\ UNCHANGED <<run_result, lock_file>>

\* run, lines 212-237 and 258-284: tasks.json exists
SetupLoadExisting(fail) ==
    /\ pc = "load"
    /\ LET loaded == load_tasks(tasks_file)
       IN  /\ loaded.kind # "none"
           /\ IF loaded.kind = "err"
              THEN /\ fail = "none"
                   /\ Return("err")
                   /\ UNCHANGED <<task_list, tasks_file, loop_state,
                                  iteration, setup>>
              ELSE LET fixed == [loaded.list EXCEPT
                                    !.tasks = ResetInProgress(@)]
                       reset_count == Cardinality(
                           {i \in DOMAIN loaded.list.tasks :
                               loaded.list.tasks[i].status = "InProgress"})
                   IN  /\ fail \in {"none", "read_prd"}
                              \cup IF reset_count > 0 THEN {"save_tasks"}
                                   ELSE {}
                       /\ setup' = [path |-> "loaded",
                                    reset_count |-> reset_count]
                       /\ IF fail = "save_tasks"
                          THEN /\ Return("err")
                               /\ UNCHANGED <<task_list, tasks_file,
                                              loop_state, iteration>>
                          ELSE /\ tasks_file' = IF reset_count > 0
                                                THEN save_tasks(fixed)
                                                ELSE tasks_file
                               /\ EnterLoop(fixed, fail)
    /\ UNCHANGED <<otherVars, args, available, state_dir, progress_md, hooks,
                   consecutive_failures, active_agent_name, cancel_flag,
                   task, tasks_snapshot_before, logs, last_iter,
                   iterations_run>>

\* run, lines 238-284: no tasks.json, the PRD is parsed by the agent
SetupParse(fail, parsed) ==
    /\ pc = "load"
    /\ load_tasks(tasks_file).kind = "none"
    /\ setup' = [path |-> "parsed", reset_count |-> 0]
    /\ IF fail \in {"parse_prd", "save_tasks"}
       THEN /\ Return("err")
            /\ UNCHANGED <<task_list, tasks_file, loop_state, iteration>>
       ELSE /\ tasks_file' = save_tasks(TaskList(parsed))
            /\ EnterLoop(TaskList(parsed), fail)
    /\ UNCHANGED <<otherVars, args, available, state_dir, progress_md, hooks,
                   consecutive_failures, active_agent_name, cancel_flag,
                   task, tasks_snapshot_before, logs, last_iter,
                   iterations_run>>


\* ------------------------------------------------------------ main loop
\* the cancellation flag is set by a signal handler, the dashboard quit
\* key or the coordinator, at any time; run reads it at the top of the loop
\* only (line 288), so a set at any earlier moment is the same as a set
\* when the loop is there
SetCancel ==
    /\ pc = "gate"
    /\ ~cancel_flag
    /\ cancel_flag' = TRUE
    /\ UNCHANGED <<otherVars, pc, args, available, task_list, tasks_file,
                   lock_file, progress_md, hooks, loop_state, iteration,
                   consecutive_failures, active_agent_name, task,
                   tasks_snapshot_before, logs, run_result, last_iter,
                   state_dir, iterations_run, setup>>

\* line 299: if iteration > args.max_iterations
IterationCapBeyond == iteration > args.max_iterations + 1

IterationCapExceeded == iteration > args.max_iterations

\* line 321: if consecutive_failures >= args.max_failures
BreakerTrippedStrict == consecutive_failures > args.max_failures

BreakerTripped == consecutive_failures >= args.max_failures

gateFrame == <<otherVars, args, available, task_list, tasks_file, iteration,
               consecutive_failures, active_agent_name, cancel_flag, task,
               tasks_snapshot_before, logs, last_iter, state_dir,
               iterations_run, setup>>

\* lines 287-296
GateCancel ==
    /\ pc = "gate"
    /\ cancel_flag
    /\ loop_state' = "Stopped"
    /\ Return("ok")
    /\ UNCHANGED <<gateFrame, progress_md, hooks>>

\* lines 298-318
GateMaxIterations ==
    /\ pc = "gate"
    /\ ~cancel_flag
    /\ IterationCapExceeded
    /\ hooks' = Append(hooks, [event |-> "max_iterations"])
    /\ loop_state' = "Stopped"
    /\ Return("ok")
    /\ UNCHANGED <<gateFrame, progress_md>>

\* lines 320-347
GateCircuitBreaker(fail) ==
    /\ pc = "gate"
    /\ ~cancel_flag
    /\ ~IterationCapExceeded
    /\ BreakerTripped
    /\ IF fail = "append_progress"
       THEN /\ Return("err")
            /\ UNCHANGED <<progress_md, hooks, loop_state>>
       ELSE /\ progress_md' = append_progress(progress_md,
                [kind |-> "stopped_circuit_breaker",
                 iteration |-> iteration])
            /\ hooks' = Append(hooks, [event |-> "circuit_breaker"])
            /\ loop_state' = "Failed"
            /\ Return("ok")
    /\ UNCHANGED gateFrame

GatesPassed ==
    /\ pc = "gate"
    /\ ~cancel_flag
    /\ ~IterationCapExceeded
    /\ ~BreakerTripped

\* lines 349-361: nothing to pick, but not everything is complete
GateNoActionableTask(fail) ==
    /\ GatesPassed
    /\ pick_next_task(task_list.tasks) = 0
    /\ ~all_tasks_complete(task_list.tasks)
    /\ IF fail = "append_progress"
       THEN /\ Return("err")
            /\ UNCHANGED <<progress_md, loop_state>>
       ELSE /\ progress_md' = append_progress(progress_md,
                [kind |-> "stopped_no_actionable"])
            /\ loop_state' = "Failed"
            /\ Return("ok")
    /\ UNCHANGED <<gateFrame, hooks>>

\* lines 349-386: nothing to pick and every task complete
GateAllComplete(fail) ==
    /\ GatesPassed
    /\ pick_next_task(task_list.tasks) = 0
    /\ all_tasks_complete(task_list.tasks)
    /\ IF fail = "append_progress"
       THEN /\ Return("err")
            /\ UNCHANGED <<progress_md, hooks, loop_state>>
       ELSE /\ progress_md' = append_progress(progress_md,
                [kind |-> "complete"])
            /\ hooks' = Append(hooks, [event |-> "all_complete"])
            /\ loop_state' = "Complete"
            /\ Return("ok")
    /\ UNCHANGED gateFrame

\* lines 349-351 and 389-465: a task is picked, the status and the lock
\* record are updated, the task is persisted as in_progress, the snapshot
\* is taken and run_iteration is entered
StartIteration(fail) ==
    /\ GatesPassed
    /\ pick_next_task(task_list.tasks) # 0
    /\ LET picked == task_list.tasks[pick_next_task(task_list.tasks)]
           marked == [task_list EXCEPT
                         !.tasks = set_task_status(@, picked.id,
                                                   "InProgress")]
           new_lock == write_lock(lock_file,
                                  [pid |-> OrchestratorPid,
                                   current_task |-> picked.id], fail)
       IN  /\ task' = picked
           /\ last_iter' = NoIter
           /\ loop_state' = "Running"
           /\ task_list' = marked
           /\ IF fail = "save_tasks"
              THEN /\ pc' = "returned"
                   /\ run_result' = "err"
                   /\ lock_file' = remove_lock
                   /\ UNCHANGED <<tasks_file, tasks_snapshot_before>>
              ELSE /\ lock_file' = new_lock
                   /\ tasks_file' = save_tasks(marked)
                   /\ tasks_snapshot_before' = TasksToJson(marked.tasks)
                   /\ pc' = "running"
                   /\ UNCHANGED run_result
    /\ iterations_run' = iterations_run + 1
    /\ UNCHANGED <<otherVars, args, available, progress_md, hooks, iteration,
                   consecutive_failures, active_agent_name, cancel_flag,
                   logs, state_dir, setup>>


\* ------------------------------------------------------------ iteration
COMPLETE_MARKER == "<promise>COMPLETE</promise>"

\* captured standard output, line by line
Stdouts == {<<>>, <<"still working">>, <<"done", COMPLETE_MARKER, "bye">>}

\* the marker looked for on the last line only
ContainsMarkerAtEnd(out) ==
    out # <<>> /\ out[Len(out)] = COMPLETE_MARKER

\* stdout.contains("<promise>COMPLETE</promise>")
ContainsMarker(out) == \E i \in DOMAIN out : out[i] = COMPLETE_MARKER

\* stdout_str.trim().is_empty()
TrimIsEmpty(out) == \A i \in DOMAIN out : out[i] = ""

\* how run_iteration's supervision of the child ended
Endings == {"exit", "timeout", "stall", "wait_err", "event_wait_err",
            "spawn_err"}

\* the ending together with ExitStatus::success() (a child that did not
\* terminate on its own has no exit status to ask)
ChildEnds == {<<"exit", TRUE>>, <<"exit", FALSE>>, <<"timeout", TRUE>>,
              <<"stall", TRUE>>, <<"wait_err", TRUE>>,
              <<"event_wait_err", FALSE>>, <<"spawn_err", TRUE>>}

\* run_iteration, lines 888-916: the Result it returns
\* ("event_wait_err": the wait that follows a disk or git event failed,
\* which .ok() turns into no exit status, so success is false)
run_iteration_result(ending, success, out) ==
    IF ending \notin {"exit", "event_wait_err"}
    THEN [ok |-> FALSE, err |-> ending]
    ELSE IF ~success /\ TrimIsEmpty(out)
    THEN [ok |-> FALSE, err |-> "exit_code"]
    ELSE [ok |-> TRUE, stdout |-> out]

\* what the agent child may leave in tasks.json while it runs
AgentEdits(tl, id) ==
    {NoFile,
     File(Serialize([tl EXCEPT !.prd_path = "other.md"])),
     File(Serialize([tl EXCEPT !.tasks = set_task_status(@, id, "Complete")])),
     File(Serialize([tl EXCEPT !.tasks =
                               IF @ = <<>> THEN @ ELSE Append(@, @[1])]))}

\* lines 473-480: the agent_edited_tasks test
tasks_snapshot_after(file, before) ==
    LET loaded == load_tasks(file)
    IN  IF loaded.kind = "some" THEN TasksToJson(loaded.list.tasks)
        ELSE before

\* an edit of tasks.json that goes unnoticed
agent_edit_ignored(file, before) == FALSE

agent_edited_tasks(file, before) == before # tasks_snapshot_after(file, before)

\* a for loop that does not skip the active agent
RECURSIVE FirstAvailable(_, _)
FirstAvailable(k, active) ==
    IF k > Len(FALLBACK_ORDER) THEN "none"
    ELSE IF FALLBACK_ORDER[k] \in available THEN FALLBACK_ORDER[k]
    ELSE FirstAvailable(k + 1, active)

\* lines 646-669: the first candidate that is not the active agent and is
\* available, "none" when the for loop finds nothing
RECURSIVE FirstFallback(_, _)
FirstFallback(k, active) ==
    IF k > Len(FALLBACK_ORDER) THEN "none"
    ELSE IF FALLBACK_ORDER[k] # active /\ FALLBACK_ORDER[k] \in available
         THEN FALLBACK_ORDER[k]
    ELSE FirstFallback(k + 1, active)

\* what is remembered of the iteration that just ended: its number, whether
\* the child terminated on its own, its exit status, whether the captured
\* stdout was blank and whether it held the marker, whether tasks.json then
\* held a task sequence other than the snapshot and whether that sequence
\* passes validation (asked only of a child that terminated on its own),
\* the I/O step that failed afterwards, the branch run took, and whether
\* the cancellation flag was set by then
IterRecord(ending, success, out, after, fail, branch) ==
    LET parsed == Deserialize(after.content)
        differs == /\ ending = "exit"
                   /\ after.exists
                   /\ parsed.ok
                   /\ TasksToJson(parsed.list.tasks) # tasks_snapshot_before
    IN  [iteration |-> iteration,
         own_exit |-> ending = "exit",
         success |-> ending = "exit" /\ success,
         blank |-> ending = "exit" /\ \A i \in DOMAIN out : out[i] = "",
         marker |-> \E i \in DOMAIN out : out[i] = COMPLETE_MARKER,
         stored_differs |-> differs,
         loads_differs |->
            differs /\ validate_task_list(parsed.list.tasks) = "ok",
         fail |-> fail,
         outcome |-> branch,
         cancelled |-> cancel_flag]

\* the inputs of one run_iteration: how supervision ended, the exit status,
\* the captured stdout, and tasks.json as the child left it
IterInputs(ending, success, out, after) ==
    /\ ending \in Endings
    /\ success \in BOOLEAN
    /\ out \in Stdouts
    /\ ending \notin {"exit", "event_wait_err"} => success
    /\ ending = "event_wait_err" => ~success
    /\ ending = "spawn_err" => out = <<>> /\ after = tasks_file

\* run_iteration writes the iteration log only when the child ended by
\* itself (lines 894-904)
WriteLog(ending) ==
    logs' = IF ending \in {"exit", "event_wait_err"}
            THEN logs \cup {<<iteration, task.id>>}
            ELSE logs

\* a fallback switch that gives the run up when no other agent is there
FallbackOrBail(journal, fail) ==
    LET candidate == FirstFallback(1, active_agent_name)
    IN  /\ fail # "append_fallback"
        /\ progress_md' = journal
        /\ UNCHANGED iteration
        /\ active_agent_name' = IF candidate = "none" THEN active_agent_name
                                 ELSE candidate
        /\ Return("err")

\* lines 639-670: the fallback switch after a failed or not-done iteration,
\* then iteration += 1
FallbackAndNext(journal, fail) ==
    LET candidate == FirstFallback(1, active_agent_name)
    IN  /\ fail = "append_fallback" => candidate # "none"
        /\ IF candidate = "none"
           THEN /\ progress_md' = journal
                /\ UNCHANGED active_agent_name
                /\ pc' = "gate"
                /\ iteration' = iteration + 1
                /\ UNCHANGED <<run_result, lock_file>>
           ELSE /\ active_agent_name' = candidate
                /\ IF fail = "append_fallback"
                   THEN /\ progress_md' = journal
                        /\ Return("err")
                        /\ UNCHANGED iteration
                   ELSE /\ progress_md' = append_progress(journal,
                            [kind |-> "fallback", from |-> active_agent_name,
                             to |-> candidate, task |-> task.id])
                        /\ pc' = "gate"
                        /\ iteration' = iteration + 1
                        /\ UNCHANGED <<run_result, lock_file>>

\* a failure that counts twice
CountFailureTwice(n) == n + 2

\* lines 575 and 610: consecutive_failures += 1
CountFailure(n) == n + 1

\* a success branch that leaves the active agent as it is
KeepActiveAgent(active) == active

\* lines 671-686: after a done iteration (consecutive_failures = 0) the
\* primary agent is created again if another one was active
RevertToPrimary(active) ==
    IF active # args.agent THEN args.agent ELSE active

iterFrame == <<otherVars, args, available, cancel_flag, task,
               tasks_snapshot_before, loop_state, state_dir, iterations_run,
               setup>>

\* lines 468-565 and 671-688: run_iteration returned Ok and the task is
\* taken as done
IterDone(ending, success, out, after, fail) ==
    /\ pc = "running"
    /\ IterInputs(ending, success, out, after)
    /\ run_iteration_result(ending, success, out).ok
    /\ \/ ContainsMarker(out)
       \/ agent_edited_tasks(after, tasks_snapshot_before)
    /\ fail \in {"none", "save_tasks", "append_progress"}
    /\ WriteLog(ending)
    /\ last_iter' = IterRecord(ending, success, out, after, fail, "done")
    /\ consecutive_failures' = 0
    /\ LET i == FirstWithId(task_list.tasks, task.id)
           done == [task_list EXCEPT
                       !.tasks = [set_task_status(@, task.id, "Complete")
                                     EXCEPT ![i].completed_at = "t1"]]
       IN  /\ task_list' = done
           /\ IF fail = "save_tasks"
              THEN /\ Return("err")
                   /\ tasks_file' = after
                   /\ UNCHANGED <<progress_md, hooks, iteration,
                                  active_agent_name>>
              ELSE /\ tasks_file' = save_tasks(done)
                   /\ IF fail = "append_progress"
                      THEN /\ Return("err")
                           /\ UNCHANGED <<progress_md, hooks, iteration,
                                          active_agent_name>>
                      ELSE /\ progress_md' = append_progress(progress_md,
                                  [kind |-> "task_complete",
                                   task |-> task.id,
                                   iteration |-> iteration])
                           /\ hooks' = Append(hooks,
                                  [event |-> "task_complete",
                                   task |-> task.id,
                                   iteration |-> iteration])
                           /\ active_agent_name' =
                                  RevertToPrimary(active_agent_name)
                           /\ iteration' = iteration + 1
                           /\ pc' = "gate"
                           /\ UNCHANGED <<run_result, lock_file>>
    /\ UNCHANGED iterFrame

\* lines 566-602 and 639-688: run_iteration returned Ok, no marker and no
\* edit of tasks.json
IterNotDone(ending, success, out, after, fail) ==
    /\ pc = "running"
    /\ IterInputs(ending, success, out, after)
    /\ run_iteration_result(ending, success, out).ok
    /\ ~ \/ ContainsMarker(out)
         \/ agent_edited_tasks(after, tasks_snapshot_before)
    /\ WriteLog(ending)
    /\ last_iter' = IterRecord(ending, success, out, after, fail, "not_done")
    /\ consecutive_failures' = CountFailure(consecutive_failures)
    /\ LET retry == [task_list EXCEPT
                        !.tasks = set_task_status(@, task.id, "Pending")]
       IN  /\ task_list' = retry
           /\ IF fail = "save_tasks"
              THEN /\ Return("err")
                   /\ tasks_file' = after
                   /\ UNCHANGED <<progress_md, hooks, iteration,
                                  active_agent_name>>
              ELSE /\ tasks_file' = save_tasks(retry)
                   /\ IF fail = "append_progress"
                      THEN /\ Return("err")
                           /\ UNCHANGED <<progress_md, hooks, iteration,
                                          active_agent_name>>
                      ELSE /\ hooks' = Append(hooks,
                                  [event |-> "task_failed",
                                   task |-> task.id,
                                   iteration |-> iteration,
                                   error |-> "not_completed"])
                           /\ FallbackAndNext(
                                  append_progress(progress_md,
                                      [kind |-> "incomplete",
                                       task |-> task.id,
                                       iteration |-> iteration,
                                       failures |-> CountFailure(consecutive_failures),
                                       max |-> args.max_failures]),
                                  fail)
    /\ UNCHANGED iterFrame

\* lines 605-636 and 639-688: run_iteration returned an error
IterError(ending, success, out, after, fail) ==
    /\ pc = "running"
    /\ IterInputs(ending, success, out, after)
    /\ ~run_iteration_result(ending, success, out).ok
    /\ WriteLog(ending)
    /\ last_iter' = IterRecord(ending, success, out, after, fail, "error")
    /\ consecutive_failures' = CountFailure(consecutive_failures)
    /\ LET failed == [task_list EXCEPT
                         !.tasks = set_task_status(@, task.id, "Failed")]
       IN  /\ task_list' = failed
           /\ IF fail = "save_tasks"
              THEN /\ Return("err")
                   /\ tasks_file' = after
                   /\ UNCHANGED <<progress_md, hooks, iteration,
                                  active_agent_name>>
              ELSE /\ tasks_file' = save_tasks(failed)
                   /\ IF fail = "append_progress"
                      THEN /\ Return("err")
                           /\ UNCHANGED <<progress_md, hooks, iteration,
                                          active_agent_name>>
                      ELSE /\ hooks' = Append(hooks,
                                  [event |-> "task_failed",
                                   task |-> task.id,
                                   iteration |-> iteration,
                                   error |-> "error"])
                           /\ FallbackAndNext(
                                  append_progress(progress_md,
                                      [kind |-> "failed",
                                       task |-> task.id,
                                       iteration |-> iteration,
                                       failures |-> CountFailure(consecutive_failures),
                                       max |-> args.max_failures]),
                                  fail)
    /\ UNCHANGED iterFrame

Next ==
    \/ SetupAgentUnavailable
    \/ \E fail \in {"none", "lock_create", "lock_write"} :
          SetupWriteLock(fail)
    \/ \E fail \in {"none", "save_tasks", "read_prd"} :
          SetupLoadExisting(fail)
    \/ \E fail \in {"none", "parse_prd", "save_tasks", "read_prd"},
          parsed \in ParsedTaskSeqs : SetupParse(fail, parsed)
    \/ SetCancel
    \/ GateCancel
    \/ GateMaxIterations
    \/ \E fail \in {"none", "append_progress"} : GateCircuitBreaker(fail)
    \/ \E fail \in {"none", "append_progress"} : GateNoActionableTask(fail)
    \/ \E fail \in {"none", "append_progress"} : GateAllComplete(fail)
    \/ \E fail \in {"none", "lock_write", "save_tasks"} :
          StartIteration(fail)
    \/ \E end \in ChildEnds, out \in Stdouts,
          after \in {tasks_file} \cup AgentEdits(task_list, task.id) :
       LET ending == end[1]
           success == end[2]
       IN
          \/ \E fail \in {"none", "save_tasks", "append_progress"} :
                IterDone(ending, success, out, after, fail)
          \/ \E fail \in {"none", "save_tasks", "append_progress",
                          "append_fallback"} :
                \/ IterNotDone(ending, success, out, after, fail)
                \/ IterError(ending, success, out, after, fail)

Spec == Init /\ [][Next]_vars

\* the positions in the fixed order of the backends other than the active
\* one whose adapter reports available
C20_Candidates ==
    {k \in 1..4 :
        /\ <<"codex", "gemini", "claude", "opencode">>[k] # active_agent_name
        /\ <<"codex", "gemini", "claude", "opencode">>[k] \in available}

\* C20: after every iteration that ends as an error or as not-done (and
\* whose outcome is persisted), the active backend becomes the first name
\* of [codex, gemini, claude, opencode] that differs from the active
\* backend and is available, and the switch is the entry appended last to
\* the journal; without such a candidate the active backend is unchanged
\* and the journal gains the iteration's own entry only
C20_FallbackToFirstAvailable ==
    [][(/\ pc = "running"
        /\ last_iter'.iteration = iteration
        /\ last_iter'.outcome \in {"not_done", "error"}
        /\ last_iter'.fail = "none")
       => IF C20_Candidates = {}
          THEN /\ active_agent_name' = active_agent_name
               /\ Len(progress_md') = Len(progress_md) + 1
               /\ progress_md'[Len(progress_md')].kind
                     \in {"incomplete", "failed"}
          ELSE LET k == CHOOSE c \in C20_Candidates :
                            \A d \in C20_Candidates : c <= d
                   name == <<"codex", "gemini", "claude", "opencode">>[k]
               IN  /\ active_agent_name' = name
                   /\ Len(progress_md') = Len(progress_md) + 2
                   /\ progress_md'[Len(progress_md')] =
                         [kind |-> "fallback", from |-> active_agent_name,
                          to |-> name, task |-> task.id]]_vars

\* a switch from codex, itself first in the order, to gemini, with claude
\* available as well
C20_Witness ==
    /\ pc = "gate"
    /\ last_iter.outcome \in {"not_done", "error"}
    /\ last_iter.fail = "none"
    /\ active_agent_name = "gemini"
    /\ progress_md[Len(progress_md)].kind = "fallback"
    /\ progress_md[Len(progress_md)].from = "codex"
    /\ "claude" \in available

\* C21: at the start of every iteration at which the consecutive-failure
\* counter is zero (at its gate and while it runs) the active backend is
\* the requested primary backend
C21_PrimaryWhenNoFailures ==
    (pc \in {"gate", "running"} /\ consecutive_failures = 0)
        => active_agent_name = args.agent

\* a done iteration that followed a fallback switch: the journal holds the
\* switch, and the primary is active again at the next gate
C21_Witness ==
    /\ pc = "gate"
    /\ consecutive_failures = 0
    /\ last_iter.outcome = "done"
    /\ last_iter.fail = "none"
    /\ active_agent_name = args.agent
    /\ \E i \in DOMAIN progress_md :
          /\ progress_md[i].kind = "fallback"
          /\ progress_md[i].from = args.agent

\* the step announces completion: COMPLETE journal entry, all_complete
\* event or shared status complete
C23_AnnouncesComplete ==
    \/ /\ progress_md' # progress_md
       /\ progress_md'[Len(progress_md')].kind = "complete"
    \/ /\ hooks' # hooks
       /\ hooks'[Len(hooks')].event = "all_complete"
    \/ loop_state' = "Complete" /\ loop_state # "Complete"

\* every task of the list run holds is complete
C23_EveryTaskComplete ==
    \A i \in DOMAIN task_list.tasks : task_list.tasks[i].status = "Complete"

\* the loop leaves a gate at which nothing can be picked although a task
\* is not complete
C23_LeavesStuckGate ==
    /\ pc = "gate"
    /\ pick_next_task(task_list.tasks) = 0
    /\ ~C23_EveryTaskComplete
    /\ pc' # "gate"

\* C23 as stated: completion is announced only when every task is
\* complete, and a gate at which nothing can be picked although a task is
\* not complete is left with a STOPPED journal entry and the status
\* failed, without all_complete event and without running an agent
C23_StuckAlwaysJournalsStopped ==
    [][/\ C23_AnnouncesComplete => C23_EveryTaskComplete
       /\ (C23_LeavesStuckGate /\ run_result' = "ok") =>
             /\ Len(progress_md') = Len(progress_md) + 1
             /\ progress_md'[Len(progress_md')].kind
                   \in {"stopped_no_actionable", "stopped_circuit_breaker"}
             /\ loop_state' = "Failed"
             /\ iterations_run' = iterations_run]_vars

\* C23: completion (journal entry, all_complete event, status complete)
\* is announced only when every task is complete; a gate at which nothing
\* can be picked although a task is not complete is left by returning,
\* with no all_complete event, no status complete and no agent run, and
\* with the "no actionable tasks" STOPPED entry and the status failed when
\* no cancellation is requested, the iteration cap is not exceeded, the
\* circuit breaker is not tripped and the journal append succeeds
C23_CompleteOnlyWhenAllComplete ==
    [][/\ C23_AnnouncesComplete =>
             /\ C23_EveryTaskComplete
             /\ pc = "gate" /\ pc' = "returned"
             /\ iterations_run' = iterations_run
       /\ C23_LeavesStuckGate =>
             /\ pc' = "returned"
             /\ iterations_run' = iterations_run
             /\ ~C23_AnnouncesComplete
             /\ (/\ ~cancel_flag
                 /\ iteration <= args.max_iterations
                 /\ consecutive_failures < args.max_failures
                 /\ run_result' = "ok") =>
                   /\ progress_md' = Append(progress_md,
                                     [kind |-> "stopped_no_actionable"])
                   /\ loop_state' = "Failed"
                   /\ hooks' = hooks]_vars

\* the loop stopped because the only pending task waits for a failed one
C23_Witness ==
    /\ pc = "returned"
    /\ run_result = "ok"
    /\ loop_state = "Failed"
    /\ progress_md # <<>>
    /\ progress_md[Len(progress_md)].kind = "stopped_no_actionable"
    /\ \E i, j \in DOMAIN task_list.tasks :
          /\ task_list.tasks[i].status = "Pending"
          /\ task_list.tasks[j].status = "Failed"
    /\ \A i \in DOMAIN hooks : hooks[i].event # "all_complete"

\* C24: when the requested agent backend is not available run fails before
\* any side effect: no state root directory is created, no lock record is
\* written, and no journal entry or event is produced
C24_UnavailableAgentNoSideEffect ==
    (pc = "returned" /\ args.agent \notin available) =>
        /\ run_result = "err"
        /\ ~state_dir
        /\ lock_file = NoFile
        /\ progress_md = <<>>
        /\ hooks = <<>>
        /\ iterations_run = 0

\* how far a run is from its return: the setup steps, then per iteration
\* of the loop the gate before and after a cancellation request and the
\* iteration itself
C28_Rank ==
    LET left == args.max_iterations + 1 - iteration
    IN  CASE pc = "start" -> 4 * (args.max_iterations + 1) + 5
          [] pc = "load" -> 4 * (args.max_iterations + 1) + 4
          [] pc = "gate" -> 4 * left + (IF cancel_flag THEN 2 ELSE 3)
          [] pc = "running" -> 4 * left + 1
          [] pc = "returned" -> 0

\* termination: a run that is in the loop can take a step (a gate is
\* evaluated, an iteration that was started returns), and every step
\* brings the return nearer
C28_Terminates ==
    /\ [](pc \in {"gate", "running"} => ENABLED Next)
    /\ [][C28_Rank' < C28_Rank]_vars
    /\ [](C28_Rank >= 0)

\* the exits that a step out of the loop shows: what the cancellation
\* gate, the iteration cap, the circuit breaker, the all-complete branch
\* and the no-actionable-task branch leave behind
C28_ExitsShown ==
    LET unchanged_journal == progress_md' = progress_md
        unchanged_hooks == hooks' = hooks
        last_entry == progress_md'[Len(progress_md')]
        last_hook == hooks'[Len(hooks')]
    IN  {e \in {"cancellation", "iteration_cap", "circuit_breaker",
                "all_complete", "no_actionable_task"} :
           \/ /\ e = "cancellation"
              /\ cancel_flag /\ loop_state' = "Stopped"
              /\ unchanged_journal /\ unchanged_hooks
           \/ /\ e = "iteration_cap"
              /\ ~cancel_flag /\ loop_state' = "Stopped"
              /\ unchanged_journal /\ ~unchanged_hooks
              /\ last_hook.event = "max_iterations"
           \/ /\ e = "circuit_breaker"
              /\ loop_state' = "Failed"
              /\ ~unchanged_journal /\ ~unchanged_hooks
              /\ last_entry.kind = "stopped_circuit_breaker"
              /\ last_hook.event = "circuit_breaker"
           \/ /\ e = "all_complete"
              /\ loop_state' = "Complete"
              /\ ~unchanged_journal /\ ~unchanged_hooks
              /\ last_entry.kind = "complete"
              /\ last_hook.event = "all_complete"
           \/ /\ e = "no_actionable_task"
              /\ loop_state' = "Failed"
              /\ ~unchanged_journal /\ unchanged_hooks
              /\ last_entry.kind = "stopped_no_actionable"}

\* C28 as stated: every run of the loop terminates, after at most
\* max_iterations iterations, and every step that leaves the loop is the
\* step of a gate and shows exactly one of the five exits; the step that
\* ends an iteration, whatever its outcome, goes back to the gate
C28_LoopEndsThroughOneOfFiveExits ==
    /\ C28_Terminates
    /\ [](iterations_run <= args.max_iterations)
    /\ [][(pc \in {"gate", "running"} /\ pc' = "returned")
          => /\ pc = "gate"
             /\ iterations_run' = iterations_run
             /\ Cardinality(C28_ExitsShown) = 1]_vars
    /\ [][pc = "running" => pc' = "gate"]_vars

\* C28 amended: every run of the loop terminates, after at most
\* max_iterations iterations; it leaves the loop either at a gate through
\* exactly one of the five exits, with no error, or by returning the error
\* of a failed write of the task file or of the journal (at the gate, when
\* an iteration is started, or after an iteration); an iteration that
\* ended as an error or as not-done, and whose writes succeeded, goes back
\* to the gate
C28_LoopEndsThroughExitOrWriteError ==
    /\ C28_Terminates
    /\ [](iterations_run <= args.max_iterations)
    /\ [][(pc \in {"gate", "running"} /\ pc' = "returned")
          => \/ /\ run_result' = "ok"
                /\ pc = "gate"
                /\ iterations_run' = iterations_run
                /\ Cardinality(C28_ExitsShown) = 1
             \/ /\ run_result' = "err"
                /\ loop_state' = loop_state \/ pc = "gate"
                /\ pc = "running" => last_iter'.fail # "none"]_vars
    /\ [][(pc = "running" /\ last_iter'.fail = "none") => pc' = "gate"]_vars

\* a run that came back to the gate after an iteration that ended as an
\* error and after one that ended as not-done, and left through a gate
C28_Witness ==
    /\ pc = "returned" /\ run_result = "ok"
    /\ iterations_run = 2
    /\ last_iter.outcome \in {"error", "not_done"}
    /\ \E i \in DOMAIN progress_md : progress_md[i].kind = "failed"
    /\ \E i \in DOMAIN progress_md : progress_md[i].kind = "incomplete"


\* the tasks of the list that tasks.json holds
C29_Persisted == Deserialize(tasks_file.content).list.tasks

C29_InProgress ==
    {i \in DOMAIN C29_Persisted : C29_Persisted[i].status = "InProgress"}

\* C29: while the child of an iteration runs, tasks.json, as saved before
\* the spawn, shows exactly one task in_progress, the selected one; at
\* every gate and at every return of the loop through one of its exits it
\* shows none
C29_OneInProgressWhileRunningOnly ==
    /\ pc = "running" =>
          /\ tasks_file.exists
          /\ Cardinality(C29_InProgress) = 1
          /\ \A i \in C29_InProgress :
                /\ C29_Persisted[i].id = task.id
                /\ i = FirstWithId(C29_Persisted, task.id)
    /\ (pc = "gate" \/ (pc = "returned" /\ run_result = "ok"
                        /\ iteration >= 1)) =>
          /\ tasks_file.exists
          /\ C29_InProgress = {}


\* the status that tasks.json holds, after the step, for the task of the
\* iteration
C30_PersistedStatus ==
    LET tasks == Deserialize(tasks_file'.content).list.tasks
    IN  tasks[FirstWithId(tasks, task.id)].status

\* the step that records an iteration with the given outcome and goes
\* back to the gate, and the step that starts the next iteration
C30_Recorded(branch) ==
    pc = "running" /\ pc' = "gate" /\ last_iter'.outcome = branch

C30_Selects == pc = "gate" /\ pc' = "running"

\* C30: an iteration that ends as an error leaves its task persisted as
\* failed and no later iteration of the run selects that task; an iteration
\* that ends as not-done leaves its task persisted as pending, and the next
\* iteration, if the gates let one start, selects the same task
C30_FailedStaysOutPendingComesBack ==
    /\ [][C30_Recorded("error") =>
             tasks_file'.exists /\ C30_PersistedStatus = "Failed"]_vars
    /\ [][C30_Recorded("not_done") =>
             tasks_file'.exists /\ C30_PersistedStatus = "Pending"]_vars
    /\ [][C30_Selects =>
             \A i \in DOMAIN progress_md :
                progress_md[i].kind = "failed" =>
                   progress_md[i].task # task'.id]_vars
    /\ [][(C30_Selects /\ last_iter.outcome = "not_done") =>
             task' = task]_vars


\* the journal entries of the iterations run since the last done
\* iteration (or since the start), in order
C31_Streak ==
    LET done == {i \in DOMAIN progress_md :
                    progress_md[i].kind = "task_complete"}
        from == IF done = {} THEN 0
                ELSE CHOOSE i \in done : \A j \in done : j <= i
    IN  SelectSeq(SubSeq(progress_md, from + 1, Len(progress_md)),
                  LAMBDA e : e.kind \in {"failed", "incomplete"})

\* C31: at every gate the consecutive-failure counter is the number of
\* iterations run since the last done iteration (or since the start), the
\* k-th failure of a streak is journaled as k/max_failures, and with
\* max_failures >= 1 the counter never exceeds max_failures
C31_CounterCountsStreak ==
    /\ pc = "gate" => consecutive_failures = Len(C31_Streak)
    /\ pc = "gate" => iteration = iterations_run + 1
    /\ \A k \in DOMAIN C31_Streak :
          /\ C31_Streak[k].failures = k
          /\ C31_Streak[k].max = args.max_failures
    /\ args.max_failures >= 1 => consecutive_failures <= args.max_failures

\* a gate after two failed iterations in a row, one an error and one
\* not-done
C31_Witness ==
    /\ pc = "gate"
    /\ consecutive_failures = 2
    /\ Len(C31_Streak) = 2
    /\ {C31_Streak[1].kind, C31_Streak[2].kind} = {"failed", "incomplete"}


C36_EndedAllComplete ==
    /\ pc = "returned" /\ run_result = "ok"
    /\ ~cancel_flag /\ ~args.dry_run
    /\ all_tasks_complete(task_list.tasks)

C37_SelectedEntries(before, t) ==
    {i \in DOMAIN before :
        [before[i] EXCEPT !.status = t.status,
                          !.completed_at = t.completed_at] = t}

\* after differs from before in the status and the completion time of the
\* selected entry at most
C37_OnlySelectedChanged(before, after, t) ==
    /\ Len(after) = Len(before)
    /\ \E i \in C37_SelectedEntries(before, t) :
          /\ \A j \in DOMAIN before : j # i => after[j] = before[j]
          /\ after[i].id = before[i].id
          /\ after[i].priority = before[i].priority
          /\ after[i].depends_on = before[i].depends_on

\* C37: the list persisted when an iteration starts differs from the one
\* persisted before in the selected task's status only, and the list
\* persisted when the iteration has been recorded differs from the one
\* persisted at its start in the selected task's status and completion
\* time only, whatever the agent left in tasks.json: number, order, ids,
\* priorities, dependencies and statuses of all other tasks are the same.
C37_IterationChangesSelectedTaskOnly ==
    [][/\ (pc = "gate" /\ pc' = "running")
          => C37_OnlySelectedChanged(
                Deserialize(tasks_file.content).list.tasks,
                Deserialize(tasks_file'.content).list.tasks, task')
       /\ (pc = "running" /\ pc' = "gate")
          => C37_OnlySelectedChanged(
                [i \in DOMAIN tasks_snapshot_before |->
                    TaskFromJson(tasks_snapshot_before[i])],
                Deserialize(tasks_file'.content).list.tasks, task)]_vars

\* the ids of the tasks the loop has marked in_progress so far: every
\* iteration leaves a journal entry naming its task
C38_MarkedIds ==
    {progress_md[k].task :
        k \in {n \in DOMAIN progress_md : "task" \in DOMAIN progress_md[n]}}
    \cup (IF pc = "running" THEN {task.id} ELSE {})

C38_CompletedIds ==
    {progress_md[k].task :
        k \in {n \in DOMAIN progress_md :
                  progress_md[n].kind = "task_complete"}}

C38_DepsComplete(tasks, i) ==
    \A d \in DOMAIN tasks[i].depends_on :
        \E j \in DOMAIN tasks :
            /\ tasks[j].id = tasks[i].depends_on[d]
            /\ tasks[j].status = "Complete"

\* a task the loop has marked complete is complete after the step
C38_CompleteIsKept ==
    pc \in {"gate", "running"} =>
        /\ Len(task_list'.tasks) = Len(task_list.tasks)
        /\ \A i \in DOMAIN task_list.tasks :
              (/\ task_list.tasks[i].status = "Complete"
               /\ task_list.tasks[i].id \in C38_CompletedIds)
                 => task_list'.tasks[i].status = "Complete"

\* C38: from the moment the loop marks a task in_progress, and so when it
\* marks it complete and ever after, all dependencies of the task are
\* complete; a task the loop has marked complete keeps that status for
\* the rest of the run.
C38_DependenciesStayCompleteAndCompleteIsFinal ==
    /\ [](pc \in {"gate", "running", "returned"} =>
            \A i \in DOMAIN task_list.tasks :
                task_list.tasks[i].id \in C38_MarkedIds
                    => C38_DepsComplete(task_list.tasks, i))
    /\ [][C38_CompleteIsKept]_vars

\* ---------------------------------------------------------- SpecCancel
\* run with the moment of the cancellation made explicit: the flag is also
\* set while run_iteration is under way (signal handler task, dashboard
\* thread).  The runs are those on the basic task files.
SetCancelRunning ==
    /\ pc = "running"
    /\ ~cancel_flag
    /\ cancel_flag' = TRUE
    /\ UNCHANGED <<otherVars, pc, args, available, task_list, tasks_file,
                   lock_file, progress_md, hooks, loop_state, iteration,
                   consecutive_failures, active_agent_name, task,
                   tasks_snapshot_before, logs, run_result, last_iter,
                   state_dir, iterations_run, setup>>

InitCancel == Init /\ tasks_file \in BasicTasksFiles

NextCancel == Next \/ SetCancelRunning

SpecCancel == InitCancel /\ [][NextCancel]_vars

\* ------------------------------------------------------- claims on Spec
\* the entry of the orchestrator's list that carries the selected id
SelectedEntry == task_list.tasks[FirstWithId(task_list.tasks, task.id)]

\* how often a sequence holds an element
Count(seq, e) == Cardinality({i \in DOMAIN seq : seq[i] = e})

\* C2 as stated: after an iteration whose child terminated on its own the
\* task is treated as done if and only if the captured stdout holds the
\* marker or the task sequence stored in tasks.json differs from the
\* snapshot taken before the run (read for iterations after which every
\* write of the orchestrator succeeded)
C2_DoneIffMarkerOrStoredDiffers ==
    (last_iter.own_exit /\ last_iter.fail = "none") =>
        (last_iter.outcome = "done"
            <=> (last_iter.marker \/ last_iter.stored_differs))

\* C2 amended: after an iteration whose child terminated on its own with a
\* successful exit status or a non-blank stdout, the task is treated as
\* done if and only if the stdout holds the marker or tasks.json loads
\* (exists, parses, passes validation) as a task sequence that differs from
\* the snapshot; a child that exits unsuccessfully with a blank stdout
\* fails the iteration whatever it did to tasks.json
C2_DoneIffMarkerOrLoadedDiffers ==
    last_iter.own_exit =>
        IF last_iter.success \/ ~last_iter.blank
        THEN /\ last_iter.outcome \in {"done", "not_done"}
             /\ last_iter.outcome = "done"
                   <=> (last_iter.marker \/ last_iter.loads_differs)
        ELSE last_iter.outcome = "error"

\* an edit of the stored sequence without the marker completed the task
C2_Witness ==
    /\ pc = "gate"
    /\ last_iter.own_exit /\ ~last_iter.marker /\ last_iter.loads_differs
    /\ last_iter.outcome = "done"
    /\ SelectedEntry.status = "Complete"

C4_BreakerAlwaysStops ==
    [][(/\ pc = "gate"
        /\ consecutive_failures > 0
        /\ consecutive_failures >= args.max_failures
        /\ pc' # "gate"
        /\ run_result' # "err")
       => /\ pc' = "returned"
          /\ iterations_run' = iterations_run
          /\ loop_state' = "Failed"
          /\ progress_md' = Append(progress_md,
                 [kind |-> "stopped_circuit_breaker",
                  iteration |-> iteration])
          /\ hooks' = Append(hooks, [event |-> "circuit_breaker"])]_vars

\* C4 amended: at a gate with the failure counter at max_failures the loop
\* returns without running another iteration; it does so with the STOPPED
\* journal entry, the circuit_breaker event and the status failed when no
\* cancellation is requested, the iteration counter does not exceed
\* max_iterations and the journal append succeeds.  A failed append returns
\* the error with no event and no status change, a requested cancellation
\* stops the loop as stopped, and an exceeded iteration cap fires
\* max_iterations and stops the loop as stopped.
C4_BreakerStopsAfterCancelAndCap ==
    [][(/\ pc = "gate"
        /\ consecutive_failures >= args.max_failures
        /\ pc' # "gate")
       => /\ pc' = "returned"
          /\ iterations_run' = iterations_run
          /\ IF cancel_flag
             THEN /\ loop_state' = "Stopped"
                  /\ UNCHANGED <<progress_md, hooks>>
             ELSE IF iteration > args.max_iterations
             THEN /\ loop_state' = "Stopped"
                  /\ hooks' = Append(hooks, [event |-> "max_iterations"])
                  /\ UNCHANGED progress_md
             ELSE IF run_result' = "ok"
             THEN /\ loop_state' = "Failed"
                  /\ progress_md' = Append(progress_md,
                         [kind |-> "stopped_circuit_breaker",
                          iteration |-> iteration])
                  /\ hooks' = Append(hooks, [event |-> "circuit_breaker"])
             ELSE /\ run_result' = "err"
                  /\ UNCHANGED <<progress_md, hooks, loop_state>>]_vars

\* the breaker stopped a loop after a failed iteration
C4_Witness ==
    /\ pc = "returned" /\ run_result = "ok"
    /\ loop_state = "Failed"
    /\ args.max_failures > 0
    /\ consecutive_failures = args.max_failures
    /\ iterations_run = args.max_failures
    /\ hooks # <<>> /\ hooks[Len(hooks)] = [event |-> "circuit_breaker"]
    /\ progress_md[Len(progress_md)].kind = "stopped_circuit_breaker"

\* C5 as stated: never more than max_iterations iterations are run, and at
\* a gate with the iteration counter above the cap the loop fires
\* max_iterations, sets the status stopped and returns without selecting
\* (read for loops that ran an iteration)
C5_CapAlwaysFires ==
    [][/\ iterations_run' <= args.max_iterations
       /\ (/\ pc = "gate"
           /\ iterations_run > 0
           /\ iteration > args.max_iterations
           /\ pc' # "gate")
          => /\ pc' = "returned"
             /\ iterations_run' = iterations_run
             /\ loop_state' = "Stopped"
             /\ hooks' = Append(hooks, [event |-> "max_iterations"])]_vars

\* C5 amended: never more than max_iterations iterations are run, and at a
\* gate with the iteration counter above the cap the loop returns as
\* stopped without selecting a task; it fires max_iterations unless
\* cancellation is requested, in which case no event is fired
C5_CapStopsAndFiresUnlessCancelled ==
    [][/\ iterations_run' <= args.max_iterations
       /\ (/\ pc = "gate"
           /\ iteration > args.max_iterations
           /\ pc' # "gate")
          => /\ pc' = "returned" /\ run_result' = "ok"
             /\ iterations_run' = iterations_run
             /\ UNCHANGED <<task, task_list, tasks_file, progress_md>>
             /\ loop_state' = "Stopped"
             /\ hooks' = IF cancel_flag THEN hooks
                         ELSE Append(hooks, [event |-> "max_iterations"])]_vars

\* a loop that ran max_iterations iterations and was stopped by the cap
C5_Witness ==
    /\ pc = "returned"
    /\ loop_state = "Stopped"
    /\ args.max_iterations = MaxIterationsArg
    /\ iterations_run = args.max_iterations
    /\ iteration = args.max_iterations + 1
    /\ hooks # <<>> /\ hooks[Len(hooks)] = [event |-> "max_iterations"]

\* C8: from the lock write of setup until run returns the lock file exists
\* and carries the orchestrator's pid; after run has returned, by any path,
\* the lock file is absent
C8_LockHeldUntilReturn ==
    /\ pc \in {"load", "gate", "running"} =>
          /\ lock_file.exists
          /\ lock_file.content # <<>>
          /\ lock_file.content[1].pid = OrchestratorPid
    /\ pc = "returned" => ~lock_file.exists

\* C9: when setup loads a stored list, every in_progress task is pending
\* in the list the loop starts with, every other task is as stored, the
\* list is on disk in that form before the first iteration, and no
\* iteration of a run that loaded its list starts with an in_progress task
C9_InProgressResetOnLoad ==
    [][/\ (pc = "load" /\ pc' = "gate" /\ tasks_file.exists) =>
             LET stored == Deserialize(tasks_file.content).list.tasks
                 now == task_list'.tasks
             IN  /\ Len(now) = Len(stored)
                 /\ \A i \in DOMAIN stored :
                       now[i] = IF stored[i].status = "InProgress"
                                THEN [stored[i] EXCEPT !.status = "Pending"]
                                ELSE stored[i]
                 /\ tasks_file'.exists
                 /\ Deserialize(tasks_file'.content).ok
                 /\ Deserialize(tasks_file'.content).list.tasks = now
       /\ (pc = "gate" /\ pc' = "running" /\ setup.path = "loaded") =>
             /\ \A i \in DOMAIN task_list.tasks :
                   task_list.tasks[i].status # "InProgress"
             /\ task'.status = "Pending"]_vars

\* the first iteration of a run whose stored list held in_progress tasks
C9_Witness ==
    /\ pc = "running"
    /\ iterations_run = 1
    /\ setup.path = "loaded"
    /\ setup.reset_count = MaxTasks
    /\ task.status = "Pending"


\* C13: whenever the loop is at its gate, that is after every save_tasks
\* run has performed (of a freshly parsed list, of the in_progress reset,
\* of each status transition), load_tasks succeeds on tasks.json and
\* returns the list the orchestrator holds and iterates over
C13_PersistedListLoads ==
    pc = "gate" =>
        load_tasks(tasks_file) = [kind |-> "some", list |-> task_list]


\* ------------------------------------------------ claims on SpecCancel

\* the status run gives the selected task after an iteration
C18_StatusAfter(branch) ==
    CASE branch = "done" -> "Complete"
      [] branch = "not_done" -> "Pending"
      [] OTHER -> "Failed"

\* the journal entry run writes after an iteration
C18_EntryAfter(branch) ==
    CASE branch = "done" -> "task_complete"
      [] branch = "not_done" -> "incomplete"
      [] OTHER -> "failed"

\* C18: when the cancellation flag is set while an iteration is running,
\* the iteration still ends by itself, its outcome is interpreted and the
\* task's resulting status and the journal entry are persisted; at the
\* next gate the loop sets the status stopped and returns Ok without
\* starting another iteration or writing anything
C18_CancelWaitsForIteration ==
    [][/\ (pc = "running" /\ cancel_flag /\ pc' # "running") =>
            /\ last_iter'.iteration = iteration
            /\ last_iter'.cancelled
            /\ last_iter'.outcome \in {"done", "not_done", "error"}
            /\ last_iter'.fail = "none" =>
                  /\ pc' = "gate"
                  /\ cancel_flag'
                  /\ tasks_file' = File(Serialize(task_list'))
                  /\ task_list'.tasks[FirstWithId(task_list'.tasks,
                                                  task.id)].status
                        = C18_StatusAfter(last_iter'.outcome)
                  /\ Len(progress_md') > Len(progress_md)
                  /\ progress_md'[Len(progress_md) + 1].kind
                        = C18_EntryAfter(last_iter'.outcome)
                  /\ progress_md'[Len(progress_md) + 1].task = task.id
       /\ (pc = "gate" /\ cancel_flag) =>
            /\ pc' = "returned"
            /\ run_result' = "ok"
            /\ loop_state' = "Stopped"
            /\ UNCHANGED <<iterations_run, tasks_file, task_list,
                           progress_md>>]_vars

\* a run that was cancelled during an iteration which completed its task,
\* and then stopped at the gate
C18_Witness ==
    /\ pc = "returned"
    /\ run_result = "ok"
    /\ loop_state = "Stopped"
    /\ last_iter.cancelled
    /\ last_iter.outcome = "done"
    /\ last_iter.fail = "none"
    /\ last_iter.iteration = iterations_run
    /\ iteration <= args.max_iterations
    /\ ~all_tasks_complete(task_list.tasks)

\* =========================================================== SpecSched
\* pick_next_task applied to any Vec<Task>
InitSched ==
    /\ \E n \in 0..MaxTasks : pure_in \in [1..n -> Task]
    /\ pure_out = [op |-> "none"]
    /\ IdleLoop /\ tasks_file = NoFile
    /\ IdleStore /\ IdleIter /\ IdleWatch

ApplyPick ==
    /\ pure_out.op = "none"
    /\ pure_out' = [op |-> "pick_next_task",
                    result |-> pick_next_task(pure_in)]
    /\ UNCHANGED <<pure_in, loopVars, storeVars, iterVars, watchVars>>

NextSched == ApplyPick

SpecSched == InitSched /\ [][NextSched]_vars

\* a task that may be scheduled: pending, and every id in its depends_on
\* names a task whose status is complete
C1_Eligible(tasks, i) ==
    /\ tasks[i].status = "Pending"
    /\ \A d \in Range(tasks[i].depends_on) :
          \E j \in DOMAIN tasks :
             tasks[j].id = d /\ tasks[j].status = "Complete"

\* C1: pick_next_task returns a task only if it is pending and every id in
\* its depends_on names a task whose status is complete, no other eligible
\* pending task has a smaller priority value, and it returns none exactly
\* when no pending task is eligible
C1_PickReturnsMinimalEligible ==
    pure_out.op = "pick_next_task" =>
        LET r == pure_out.result
        IN  /\ r = 0 <=> ~ \E i \in DOMAIN pure_in : C1_Eligible(pure_in, i)
            /\ r # 0 =>
                  /\ r \in DOMAIN pure_in
                  /\ C1_Eligible(pure_in, r)
                  /\ \A i \in DOMAIN pure_in :
                        C1_Eligible(pure_in, i) =>
                           pure_in[r].priority <= pure_in[i].priority

\* a later task of smaller priority value is returned past an eligible
\* earlier one, while a task with an incomplete dependency is passed over
C1_Witness ==
    /\ pure_out.op = "pick_next_task"
    /\ Len(pure_in) = 2
    /\ pure_out.result = 2
    /\ C1_Eligible(pure_in, 1)
    /\ pure_in[1].priority > pure_in[2].priority


\* ======================================================= SpecRoundTrip
\* save_tasks followed by load_tasks, applied to every valid list: the
\* stored lists in every status, each task with or without a completed_at
InitRoundTrip ==
    /\ \E ts \in StoredTaskSeqs, stamp \in [1..MaxTasks -> {None, "t0"}] :
          pure_in = [i \in DOMAIN ts |->
                        [ts[i] EXCEPT !.completed_at = stamp[i]]]
    /\ pure_out = [op |-> "none"]
    /\ IdleLoop /\ tasks_file = NoFile
    /\ IdleStore /\ IdleIter /\ IdleWatch

ApplySaveLoad ==
    /\ pure_out.op = "none"
    /\ pure_out' = [op |-> "save_load",
                    result |-> load_tasks(save_tasks(TaskList(pure_in)))]
    /\ UNCHANGED <<pure_in, loopVars, storeVars, iterVars, watchVars>>

NextRoundTrip == ApplySaveLoad

SpecRoundTrip == InitRoundTrip /\ [][NextRoundTrip]_vars

ValidateDepSeqs == DepSeqs \cup {<<d, d>> : d \in TaskIds}

ValidateTask == [id : TaskIds, priority : {1}, status : {"Pending"},
                 depends_on : ValidateDepSeqs, completed_at : {None}]

InitValidate ==
    /\ \E n \in 0..MaxTasks : pure_in \in [1..n -> ValidateTask]
    /\ pure_out = [op |-> "none"]
    /\ IdleLoop /\ tasks_file = NoFile
    /\ IdleStore /\ IdleIter /\ IdleWatch

ApplyValidate ==
    /\ pure_out.op = "none"
    /\ pure_out' = [op |-> "validate_task_list",
                    result |-> validate_task_list(pure_in),
                    loaded |-> load_tasks(save_tasks(TaskList(pure_in)))]
    /\ UNCHANGED <<pure_in, loopVars, storeVars, iterVars, watchVars>>

NextValidate == ApplyValidate

SpecValidate == InitValidate /\ [][NextValidate]_vars

\* the pairs <<a, b>> of ids such that task a lists b in its depends_on
C14_Edges(tasks) ==
    UNION {{<<tasks[i].id, tasks[i].depends_on[d]>> :
               d \in DOMAIN tasks[i].depends_on} : i \in DOMAIN tasks}

\* the pairs joined by a path of at most k + 1 dependency edges
RECURSIVE C14_Paths(_, _)
C14_Paths(tasks, k) ==
    IF k = 0 THEN C14_Edges(tasks)
    ELSE LET shorter == C14_Paths(tasks, k - 1)
         IN  shorter \cup
             {<<x[1][1], x[2][2]>> :
                 x \in {y \in shorter \X C14_Edges(tasks) :
                            y[1][2] = y[2][1]}}

\* ids pairwise distinct, every dependency id names a task of the list, and
\* no task reaches itself along dependency edges
C14_Valid(tasks) ==
    /\ \A i, j \in DOMAIN tasks : i # j => tasks[i].id # tasks[j].id
    /\ \A e \in C14_Edges(tasks) : \E j \in DOMAIN tasks : tasks[j].id = e[2]
    /\ \A e \in C14_Paths(tasks, Len(tasks)) : e[1] # e[2]

\* C14: validation accepts a list exactly when its ids are pairwise
\* distinct, every dependency id names a task of the list and the
\* dependency relation has no cycle (a task depending on itself is a cycle,
\* a dependency listed twice is not), and load_tasks fails in every other
\* case
C14_ValidationAcceptsExactlyValid ==
    pure_out.op = "validate_task_list" =>
        /\ pure_out.result = "ok" <=> C14_Valid(pure_in)
        /\ pure_out.loaded = IF C14_Valid(pure_in)
                             THEN [kind |-> "some",
                                   list |-> TaskList(pure_in)]
                             ELSE [kind |-> "err"]

\* a list whose second task lists the first one twice was accepted
C14_Witness ==
    /\ pure_out.op = "validate_task_list"
    /\ Len(pure_in) = 2
    /\ pure_in[1].depends_on = <<>>
    /\ pure_in[2].depends_on = <<pure_in[1].id, pure_in[1].id>>
    /\ pure_out.result = "ok"
    /\ pure_out.loaded.kind = "some"


\* ============================================================ SpecSlug
\* watch::prd_slug and watch::make_unique_slugs applied to the file stems
\* of every list of up to MaxPrds PRD paths.  A string is the sequence of
\* its characters.
MaxPrds == 3

\* file stems of the PRD paths (two paths in different directories can
\* have the same stem)
PrdStems == {<<"a">>, <<"A">>, <<"b">>, <<"a", "-", "2">>, <<"a", "_", "2">>,
             <<"-", "a">>}

\* char::to_lowercase on the characters used here
ToLowercase(c) == IF c = "A" THEN "a" ELSE c

\* char::is_alphanumeric
IsAlphanumeric(c) == c \in {"a", "b", "A", "0", "1", "2", "3", "4", "5", "6",
                            "7", "8", "9"}

\* str::trim_matches('-')
RECURSIVE TrimDashes(_)
TrimDashes(s) ==
    IF s = <<>> THEN s
    ELSE IF Head(s) = "-" THEN TrimDashes(Tail(s))
    ELSE IF s[Len(s)] = "-" THEN TrimDashes(SubSeq(s, 1, Len(s) - 1))
    ELSE s

\* prd_slug: the stem in lower case, every character that is neither
\* alphanumeric nor '-' replaced by '-', dashes trimmed at both ends
prd_slug(stem) ==
    TrimDashes([i \in DOMAIN stem |->
                   LET c == ToLowercase(stem[i])
                   IN  IF IsAlphanumeric(c) \/ c = "-" THEN c ELSE "-"])

\* u32 Display: the decimal digits of n
RECURSIVE ToDecimal(_)
ToDecimal(n) ==
    LET digit == <<"0", "1", "2", "3", "4", "5", "6", "7", "8", "9">>
    IN  IF n < 10 THEN <<digit[n + 1]>>
        ELSE ToDecimal(n \div 10) \o <<digit[(n % 10) + 1]>>

\* the for loop of make_unique_slugs from the k-th path on: seen counts
\* the occurrences of each base so far
RECURSIVE UniqueSlugsFrom(_, _, _, _)
UniqueSlugsFrom(stems, k, seen, result) ==
    IF k > Len(stems) THEN result
    ELSE LET base == prd_slug(stems[k])
             count == (IF base \in DOMAIN seen THEN seen[base] ELSE 0) + 1
             seen2 == [b \in DOMAIN seen \cup {base} |->
                          IF b = base THEN count ELSE seen[b]]
         IN  UniqueSlugsFrom(stems, k + 1, seen2,
                Append(result, IF count = 1 THEN base
                               ELSE base \o <<"-">> \o ToDecimal(count)))

make_unique_slugs(stems) == UniqueSlugsFrom(stems, 1, <<>>, <<>>)

InitSlug ==
    /\ \E n \in 0..MaxPrds : pure_in \in [1..n -> PrdStems]
    /\ pure_out = [op |-> "none"]
    /\ IdleLoop /\ tasks_file = NoFile
    /\ IdleStore /\ IdleIter /\ IdleWatch

ApplyMakeUniqueSlugs ==
    /\ pure_out.op = "none"
    /\ pure_out' = [op |-> "make_unique_slugs",
                    result |-> make_unique_slugs(pure_in)]
    /\ UNCHANGED <<pure_in, loopVars, storeVars, iterVars, watchVars>>

NextSlug == ApplyMakeUniqueSlugs

SpecSlug == InitSlug /\ [][NextSlug]_vars

\* C16: for every list of PRD paths the slugs derived for them are
\* pairwise distinct, so that no two loops share a state root
C16_SlugsPairwiseDistinct ==
    pure_out.op = "make_unique_slugs" =>
        /\ Len(pure_out.result) = Len(pure_in)
        /\ \A i, j \in DOMAIN pure_out.result :
              i # j => pure_out.result[i] # pure_out.result[j]


\* =========================================================== SpecStore
\* StateManager::save_tasks step by step on one state root, with a
\* load_tasks that may run at any moment.  save_pc is the position in
\* save_tasks: "idle" (not in a call), "create", "write", "persist".

\* the lists handed to save_tasks: run saves what parse_prd returned
\* without validating it, so lists that fail validation are among them
SaveArgs == {TaskList(ts) : ts \in ParsedTaskSeqs}

StoreInitialFiles ==
    {NoFile, CorruptFile,
     File(Serialize(TaskList(
        <<[id |-> "B", priority |-> 1, status |-> "Complete",
           depends_on |-> <<>>, completed_at |-> "t0"]>>)))}

InitStore ==
    /\ tasks_file \in StoreInitialFiles
    /\ save_pc = "idle"
    /\ save_arg = TaskList(<<>>)
    /\ tmp_file = NoFile
    /\ save_result = "none"
    /\ file_before = tasks_file
    /\ last_saved = [kind |-> "none"]
    /\ load_result = [kind |-> "unread"]
    /\ reader = NoReader
    /\ IdlePure /\ IdleLoop /\ IdleIter /\ IdleWatch

storeFrame == <<pureVars, iterVars, watchVars, pc, args, available, task_list,
                lock_file, progress_md, hooks, loop_state, iteration,
                consecutive_failures, active_agent_name, cancel_flag, task,
                tasks_snapshot_before, logs, run_result, last_iter,
                state_dir, iterations_run, setup>>

\* save_tasks is called: serde_json::to_string_pretty(tasks)
SaveBegin(tl) ==
    /\ save_pc = "idle"
    /\ save_arg' = tl
    /\ file_before' = tasks_file
    /\ save_result' = "none"
    /\ load_result' = [kind |-> "unread"]
    /\ save_pc' = "create"
    /\ UNCHANGED <<storeFrame, tasks_file, tmp_file, last_saved, reader>>

\* an error return of save_tasks: the NamedTempFile, if there is one, is
\* dropped, which deletes it
SaveFails ==
    /\ save_result' = "err"
    /\ save_pc' = "idle"
    /\ tmp_file' = NoFile

\* NamedTempFile::new_in(&self.ralph_dir)
SaveCreateTemp(fail) ==
    /\ save_pc = "create"
    /\ IF fail THEN SaveFails
       ELSE /\ tmp_file' = File(<<>>)
            /\ save_pc' = "write"
            /\ UNCHANGED save_result
    /\ UNCHANGED <<storeFrame, tasks_file, save_arg, file_before,
                   last_saved, load_result, reader>>

\* the next piece of the content written to tasks.json itself
WriteChunkInPlace(tmp, target, chunk) ==
    [tmp |-> tmp,
     target |-> File(IF target.exists /\ tmp.content # <<>>
                     THEN Append(target.content, chunk) ELSE <<chunk>>)]

\* tmp.write_all: the next piece of the content goes to the temporary file
WriteChunk(tmp, target, chunk) ==
    [tmp |-> File(Append(tmp.content, chunk)), target |-> target]

\* tmp.write_all(content.as_bytes()), piece by piece; it may fail with any
\* part of the content written
SaveWriteAll(fail) ==
    /\ save_pc = "write"
    /\ LET content == Serialize(save_arg)
           n == Len(tmp_file.content)
       IN  IF fail
           THEN /\ n < Len(content)
                /\ SaveFails
                /\ UNCHANGED tasks_file
           ELSE /\ n < Len(content)
                /\ LET w == WriteChunk(tmp_file, tasks_file, content[n + 1])
                   IN  /\ tmp_file' = w.tmp
                       /\ tasks_file' = w.target
                /\ save_pc' = IF n + 1 = Len(content) THEN "persist"
                              ELSE "write"
                /\ UNCHANGED save_result
    /\ UNCHANGED <<storeFrame, save_arg, file_before, last_saved,
                   load_result, reader>>

\* the temporary file's contents copied over tasks.json: the path keeps
\* its inode, whose contents change under whoever has it open
persist_by_copy(tmp, target) == [file |-> tmp, new_inode |-> FALSE]

\* NamedTempFile::persist is rename(2): the path names the temporary
\* file's inode from now on, and the inode it named before lives on
\* unchanged for whoever has it open
persist(tmp, target) == [file |-> tmp, new_inode |-> TRUE]

\* tmp.persist(&self.tasks_file)
SavePersist(fail) ==
    /\ save_pc = "persist"
    /\ IF fail
       THEN /\ SaveFails
            /\ UNCHANGED <<tasks_file, last_saved, reader>>
       ELSE /\ tasks_file' = persist(tmp_file, tasks_file).file
            /\ reader' =
                  IF /\ reader.pc = "reading"
                     /\ reader.attached
                     /\ persist(tmp_file, tasks_file).new_inode
                  THEN [reader EXCEPT !.attached = FALSE,
                                      !.inode = tasks_file]
                  ELSE reader
            /\ tmp_file' = NoFile
            /\ save_result' = "ok"
            /\ save_pc' = "idle"
            /\ last_saved' = [kind |-> "some", list |-> save_arg]
    /\ UNCHANGED <<storeFrame, save_arg, file_before, load_result>>

\* StateManager::load_tasks, by this process or another one
LoadTasks ==
    /\ load_result' = load_tasks(tasks_file)
    /\ UNCHANGED <<storeFrame, tasks_file, save_pc, save_arg, tmp_file,
                   save_result, file_before, last_saved, reader>>

\* a reader without coordination (load_tasks of another process): the
\* self.tasks_file.exists() test of line 220.  checked_after remembers
\* which save had completed at that moment.
ReaderExists ==
    /\ reader.pc \in {"idle", "done"}
    /\ reader' = [pc |-> IF tasks_file.exists THEN "open" ELSE "done",
                  attached |-> FALSE, inode |-> NoFile, buf |-> <<>>,
                  missing |-> ~tasks_file.exists, failed |-> FALSE,
                  checked_after |-> last_saved,
                  at_open |-> NoFile, opened_after |-> [kind |-> "none"]]
    /\ UNCHANGED <<storeFrame, tasks_file, save_pc, save_arg, tmp_file,
                   save_result, file_before, last_saved, load_result>>

\* the open of fs::read_to_string (line 224), which fails when the path
\* names nothing.  at_open and opened_after remember what the path named
\* and which save had completed when the file was opened.
ReaderOpen ==
    /\ reader.pc = "open"
    /\ reader' = IF tasks_file.exists
                 THEN [reader EXCEPT !.pc = "reading", !.attached = TRUE,
                                     !.at_open = tasks_file,
                                     !.opened_after = last_saved]
                 ELSE [reader EXCEPT !.pc = "done", !.failed = TRUE]
    /\ UNCHANGED <<storeFrame, tasks_file, save_pc, save_arg, tmp_file,
                   save_result, file_before, last_saved, load_result>>

\* fs::read_to_string reads on: the next piece of the inode it has open,
\* or the end of the file
ReaderRead ==
    /\ reader.pc = "reading"
    /\ LET source == IF reader.attached THEN tasks_file ELSE reader.inode
           n == Len(reader.buf)
       IN  reader' = IF n < Len(source.content)
                     THEN [reader EXCEPT
                              !.buf = Append(@, source.content[n + 1])]
                     ELSE [reader EXCEPT !.pc = "done"]
    /\ UNCHANGED <<storeFrame, tasks_file, save_pc, save_arg, tmp_file,
                   save_result, file_before, last_saved, load_result>>

NextStore ==
    \/ \E tl \in SaveArgs : SaveBegin(tl)
    \/ \E fail \in BOOLEAN : SaveCreateTemp(fail)
    \/ \E fail \in BOOLEAN : SaveWriteAll(fail)
    \/ \E fail \in BOOLEAN : SavePersist(fail)
    \/ LoadTasks
    \/ ReaderExists
    \/ ReaderOpen
    \/ ReaderRead

SpecStore == InitStore /\ [][NextStore]_vars

C11_ReaderSeesWholeSavedFile ==
    /\ (reader.pc \in {"open", "reading", "done"} /\ reader.missing) =>
          reader.checked_after.kind = "none"
    /\ reader.pc = "done" =>
          /\ ~reader.failed
          /\ ~reader.missing =>
                /\ reader.buf = reader.at_open.content
                /\ reader.opened_after.kind = "some" =>
                      /\ reader.buf = Serialize(reader.opened_after.list)
                      /\ Deserialize(reader.buf) =
                            [ok |-> TRUE, list |-> reader.opened_after.list]

\* a read that began on the file of one save and ended after a later save
\* had replaced it with a different list
C11_Witness ==
    /\ reader.pc = "done"
    /\ reader.opened_after.kind = "some"
    /\ last_saved.kind = "some"
    /\ last_saved.list # reader.opened_after.list
    /\ Len(reader.buf) = 4
    /\ ~reader.attached


\* ============================================================ SpecIter
\* run_iteration from the spawn of the child to its return, with the two
\* reader tasks and the watcher task.  The clock counts check intervals of
\* the watcher (5 s); timeout_secs and stall_timeout_secs are in the same
\* unit.  A task that can take a step takes it before the clock moves on.
\*   iter_pc     "select" (in tokio::select!), "wait_child" (in the
\*               child.wait().await of a disk or git event), "drain"
\*               (outcome known, joining the readers), "returned"
\*   watcher_pc  "await" (in its select), "sending" (inside a tick, events
\*               of this tick still to send), "stopped"

MaxClock == 4

\* mpsc::channel::<WatcherEvent>(16)
EVENT_CHANNEL_CAPACITY == 16

InitRun ==
    /\ clock = 0
    /\ timeout_secs \in 1..MaxClock
    /\ stall_timeout_secs \in 1..MaxClock
    /\ low_disk \in BOOLEAN
    /\ git_conflicts \in BOOLEAN
    /\ child = "running"
    /\ child_end = 0
    /\ exit_success = FALSE
    /\ last_output_ts = 0
    /\ collected = <<>>
    /\ event_rx = <<>>
    /\ watcher_pc = "await"
    /\ watcher_sends = <<>>
    /\ stall_fired = FALSE
    /\ tick_due = TRUE
    /\ shutdown = FALSE
    /\ iter_pc = "select"
    /\ outcome = "none"
    /\ iter_result = "none"
    /\ IdleStore /\ IdleLoop /\ tasks_file = NoFile
    /\ IdleWatch

InitIter == InitRun /\ IdlePure

\* what run_iteration and the watcher leave alone, without and with the
\* record of the ticks that SpecEmit keeps in pure_out
emitFrame == <<pure_in, storeVars, loopVars, watchVars, timeout_secs,
               stall_timeout_secs, low_disk, git_conflicts>>

runFrame == <<pureVars, storeVars, loopVars, watchVars, timeout_secs,
              stall_timeout_secs, low_disk, git_conflicts>>

\* the child writes a line; a reader task takes it and stores the time in
\* last_output_ts (update_last_output)
ChildOutput ==
    /\ child = "running"
    /\ iter_pc \in {"select", "wait_child"}
    /\ clock > last_output_ts \/ collected = <<>>
    /\ collected' = <<"line">>
    /\ last_output_ts' = clock
    /\ UNCHANGED <<runFrame, clock, child, child_end, exit_success,
                   event_rx, watcher_pc, watcher_sends, stall_fired,
                   tick_due, shutdown, iter_pc, outcome, iter_result>>

\* the child terminates on its own
ChildExit(success) ==
    /\ child = "running"
    /\ child' = "exited"
    /\ child_end' = clock
    /\ exit_success' = success
    /\ UNCHANGED <<runFrame, clock, last_output_ts, collected, event_rx,
                   watcher_pc, watcher_sends, stall_fired, tick_due,
                   shutdown, iter_pc, outcome, iter_result>>

\* proc.child.kill(): nothing to do for a child that has terminated
kill(c) == IF c = "running" THEN "killed" ELSE c

\* which branches of the select of run_iteration are ready
WaitReady == child # "running"

SleepReady == clock >= timeout_secs

RecvReady == event_rx # <<>>

\* one check interval passes; no task is left with a step it can take
ClockAdvance(limit) ==
    /\ clock < limit
    /\ iter_pc \notin {"log", "returned"}
    /\ iter_pc = "select" => ~WaitReady /\ ~SleepReady /\ ~RecvReady
    /\ iter_pc = "wait_child" => ~WaitReady
    /\ iter_pc # "drain"
    /\ watcher_pc = "await" => ~tick_due /\ ~shutdown
    /\ watcher_pc = "sending" => Len(event_rx) >= EVENT_CHANNEL_CAPACITY
    /\ clock' = clock + 1
    /\ tick_due' = TRUE
    /\ UNCHANGED <<runFrame, child, child_end, exit_success,
                   last_output_ts, collected, event_rx, watcher_pc,
                   watcher_sends, stall_fired, shutdown, iter_pc, outcome,
                   iter_result>>

ClockTick == ClockAdvance(MaxClock)

\* the stall check of a tick without the stall_fired latch
stall_event_every_tick(stalled, fired) ==
    IF stalled THEN <<"StallDetected">> ELSE <<>>

\* the stall check of a tick: one event per stall window
stall_event(stalled, fired) ==
    IF stalled /\ ~fired THEN <<"StallDetected">> ELSE <<>>

\* now.saturating_sub(last_ts) >= stall_timeout.as_secs()
Stalled == clock - last_output_ts >= stall_timeout_secs

\* run_watcher, the ticker branch: the stall check, the disk check and the
\* git check decide what this tick sends, in that order
run_watcher_tick ==
    /\ watcher_pc = "await"
    /\ ~shutdown
    /\ tick_due
    /\ LET stalled == Stalled
           sends == stall_event(stalled, stall_fired)
                    \o (IF low_disk THEN <<"DiskSpaceWarning">> ELSE <<>>)
                    \o (IF git_conflicts THEN <<"GitConflictsDetected">>
                        ELSE <<>>)
       IN  /\ stall_fired' = stalled
           /\ watcher_sends' = sends
           /\ watcher_pc' = IF sends = <<>> THEN "await" ELSE "sending"
    /\ tick_due' = FALSE
    /\ UNCHANGED <<clock, child, child_end, exit_success, last_output_ts,
                   collected, event_rx, shutdown, iter_pc, outcome,
                   iter_result>>

WatcherTick == run_watcher_tick /\ UNCHANGED runFrame

\* event_tx.send(..).await: waits while the channel is full, fails at once
\* (and is ignored) when the receiver is gone
WatcherSend ==
    /\ watcher_pc = "sending"
    /\ IF iter_pc = "returned"
       THEN UNCHANGED event_rx
       ELSE /\ Len(event_rx) < EVENT_CHANNEL_CAPACITY
            /\ event_rx' = Append(event_rx, Head(watcher_sends))
    /\ watcher_sends' = Tail(watcher_sends)
    /\ watcher_pc' = IF Tail(watcher_sends) = <<>> THEN "await"
                     ELSE "sending"
    /\ UNCHANGED <<runFrame, clock, child, child_end, exit_success,
                   last_output_ts, collected, stall_fired, tick_due,
                   shutdown, iter_pc, outcome, iter_result>>

\* run_watcher, the shutdown branch (biased: taken before a due tick)
WatcherShutdown ==
    /\ watcher_pc = "await"
    /\ shutdown
    /\ watcher_pc' = "stopped"
    /\ UNCHANGED <<runFrame, clock, child, child_end, exit_success,
                   last_output_ts, collected, event_rx, watcher_sends,
                   stall_fired, tick_due, shutdown, iter_pc, outcome,
                   iter_result>>

\* select, first branch: result = proc.child.wait()
SelectChildExit(wait_ok) ==
    /\ iter_pc = "select"
    /\ WaitReady
    /\ outcome' = IF wait_ok THEN "ok_status" ELSE "err_wait"
    /\ iter_pc' = "drain"
    /\ UNCHANGED <<runFrame, clock, child, child_end, exit_success,
                   last_output_ts, collected, event_rx, watcher_pc,
                   watcher_sends, stall_fired, tick_due, shutdown,
                   iter_result>>

\* select, second branch: tokio::time::sleep(hard_timeout)
SelectTimeout ==
    /\ iter_pc = "select"
    /\ SleepReady
    /\ child' = kill(child)
    /\ child_end' = IF child = "running" THEN clock ELSE child_end
    /\ outcome' = "err_timed_out"
    /\ iter_pc' = "drain"
    /\ UNCHANGED <<runFrame, clock, exit_success, last_output_ts,
                   collected, event_rx, watcher_pc, watcher_sends,
                   stall_fired, tick_due, shutdown, iter_result>>

\* select, third branch: event = event_rx.recv().  A stall event kills the
\* child; a disk or git event goes on to proc.child.wait().await
SelectEvent ==
    /\ iter_pc = "select"
    /\ RecvReady
    /\ event_rx' = Tail(event_rx)
    /\ IF Head(event_rx) = "StallDetected"
       THEN /\ child' = kill(child)
            /\ child_end' = IF child = "running" THEN clock ELSE child_end
            /\ outcome' = "err_stalled"
            /\ iter_pc' = "drain"
       ELSE /\ iter_pc' = "wait_child"
            /\ UNCHANGED <<child, child_end, outcome>>
    /\ UNCHANGED <<runFrame, clock, exit_success, last_output_ts,
                   collected, watcher_pc, watcher_sends, stall_fired,
                   tick_due, shutdown, iter_result>>

\* Ok(proc.child.wait().await.ok()) of the disk and git arms
WaitChild(wait_ok) ==
    /\ iter_pc = "wait_child"
    /\ WaitReady
    /\ outcome' = IF wait_ok THEN "ok_status" ELSE "ok_none"
    /\ iter_pc' = "drain"
    /\ UNCHANGED <<runFrame, clock, child, child_end, exit_success,
                   last_output_ts, collected, event_rx, watcher_pc,
                   watcher_sends, stall_fired, tick_due, shutdown,
                   iter_result>>

\* lines 894-916: the error of the select, the failure of an unsuccessful
\* exit without output, or the collected output
IterationResult ==
    IF outcome \in {"err_wait", "err_timed_out", "err_stalled"}
    THEN outcome
    ELSE LET success == outcome = "ok_status" /\ exit_success
         IN  IF ~success /\ collected = <<>> THEN "err_exit_code"
             ELSE "ok_stdout"

\* lines 888-916: the readers are joined (the pipes of a terminated child
\* are closed), the watcher handle is dropped, and the result is made
Finish ==
    /\ iter_pc = "drain"
    /\ child # "running"
    /\ shutdown' = TRUE
    /\ event_rx' = <<>>
    /\ iter_result' = IterationResult
    /\ iter_pc' = "returned"
    /\ UNCHANGED <<runFrame, clock, child, child_end, exit_success,
                   last_output_ts, collected, watcher_pc, watcher_sends,
                   stall_fired, tick_due, outcome>>

NextIter ==
    \/ ChildOutput
    \/ \E success \in BOOLEAN : ChildExit(success)
    \/ ClockTick
    \/ WatcherTick
    \/ WatcherSend
    \/ WatcherShutdown
    \/ \E wait_ok \in BOOLEAN : SelectChildExit(wait_ok)
    \/ SelectTimeout
    \/ SelectEvent
    \/ \E wait_ok \in BOOLEAN : WaitChild(wait_ok)
    \/ Finish

SpecIter == InitIter /\ [][NextIter]_vars

\* C6: in every interleaving, a disk-space warning or git-conflict event
\* before the deadline included, a child still running when the timeout
\* expires is killed and run_iteration returns the timed-out error: no
\* child runs on past the deadline, and an iteration whose child stopped
\* running only after the deadline returns that error
C6_TimeoutKillsChild ==
    /\ clock > timeout_secs => child # "running"
    /\ (iter_pc = "returned" /\ child_end > timeout_secs) =>
          iter_result = "err_timed_out"

\* C7: a child alive and silent for the stall timeout is killed, also
\* after a disk-space warning or git-conflict event of the same iteration
\* (no child runs on silent past the stall timeout), and such an event
\* neither fails the iteration nor ends the supervision of the child
C7_StallKillsChild ==
    /\ child = "running" => clock - last_output_ts <= stall_timeout_secs
    /\ iter_pc = "wait_child" => outcome = "none"


\* =========================================================== SpecWatch
\* watch::watch: the coordinator acquires a semaphore permit per PRD and
\* spawns a task that runs orchestrator::run, drops the permit and records
\* a failure; then it joins the tasks.  run is taken at the grain of its
\* gates: setup, gate, iteration.  w_pc is the coordinator's position:
\* "spawn" (the for loop of line 104), "join" (line 128), "returned".
\* A loop's pc is "unspawned", "spawned" (task created), "setup", "gate",
\* "iter", "iter_event" (inside run), "run_returned", "released" (permit
\* dropped), "finished" (task complete) or "joined".
MaxLoops == 2
MaxParallel == 2

WatchArgs == [prds : 1..MaxLoops, parallel : 1..MaxParallel,
              max_iterations : 1..MaxIterationsArg,
              agent_available : BOOLEAN]

\* LoopStatus::new and a task not yet spawned; the PRD of a loop has one
\* task, "pending" or "done"
NewLoop == [pc |-> "unspawned", state |-> "Starting", result |-> "none",
            iteration |-> 1, task |-> "pending", log |-> <<>>]

InitWatch ==
    /\ w_args \in WatchArgs
    /\ w_pc = "spawn"
    /\ w_next = 1
    /\ w_permits = w_args.parallel
    /\ w_loops = [i \in 1..w_args.prds |-> NewLoop]
    /\ w_errors = <<>>
    /\ w_cancel = FALSE
    /\ IdlePure /\ IdleStore /\ IdleLoop /\ tasks_file = NoFile
    /\ IdleIter

watchFrame == <<pureVars, storeVars, loopVars, iterVars, w_args>>

\* the loops inside orchestrator::run
Running ==
    {i \in DOMAIN w_loops :
        w_loops[i].pc \in {"setup", "gate", "iter", "iter_event"}}

\* lines 104-123: semaphore.acquire_owned() completes when a permit is
\* free, and the loop task is spawned with the permit
WatchSpawn ==
    /\ w_pc = "spawn"
    /\ w_permits > 0
    /\ w_permits' = w_permits - 1
    /\ w_loops' = [w_loops EXCEPT ![w_next].pc = "spawned"]
    /\ w_next' = w_next + 1
    /\ w_pc' = IF w_next = w_args.prds THEN "join" ELSE "spawn"
    /\ UNCHANGED <<watchFrame, w_errors, w_cancel>>

\* the spawned task is polled for the first time: run begins
LoopStart(i) ==
    /\ w_loops[i].pc = "spawned"
    /\ w_loops' = [w_loops EXCEPT ![i].pc = "setup"]
    /\ UNCHANGED <<watchFrame, w_pc, w_next, w_permits, w_errors, w_cancel>>

\* run returns: result is "ok" or "err"; its iteration counter is gone
RunReturns(l, result, state) ==
    [l EXCEPT !.pc = "run_returned", !.result = result, !.state = state,
              !.iteration = 0]

\* run, lines 60-276: the availability check bails out, the lock write,
\* the load or the parse fail, or setup ends with the status running
LoopSetup(i, ok) ==
    /\ w_loops[i].pc = "setup"
    /\ w_loops' = [w_loops EXCEPT ![i] =
          IF ~w_args.agent_available
          THEN RunReturns(@, "err", "Starting")
          ELSE IF ~ok THEN RunReturns(@, "err", "Parsing")
          ELSE [@ EXCEPT !.pc = "gate", !.state = "Running"]]
    /\ UNCHANGED <<watchFrame, w_pc, w_next, w_permits, w_errors, w_cancel>>

\* a gate that does not look at the cancellation flag
GateBlind(l, choice) ==
    IF l.iteration > w_args.max_iterations
    THEN RunReturns(l, "ok", "Stopped")
    ELSE IF l.task = "done" THEN RunReturns(l, "ok", "Complete")
    ELSE CASE choice = "failed" -> RunReturns(l, "ok", "Failed")
           [] choice = "err" -> RunReturns(l, "err", l.state)
           [] OTHER -> [l EXCEPT !.pc = "iter"]

\* run, lines 286-465, one pass of the gates: cancellation, iteration cap,
\* all tasks complete, then the circuit breaker (status failed), a failed
\* journal or task file write, or an iteration
Gate(l, choice) ==
    IF w_cancel THEN RunReturns(l, "ok", "Stopped")
    ELSE GateBlind(l, choice)

LoopGate(i, choice) ==
    /\ w_loops[i].pc = "gate"
    /\ w_loops' = [w_loops EXCEPT ![i] = Gate(@, choice)]
    /\ UNCHANGED <<watchFrame, w_pc, w_next, w_permits, w_errors, w_cancel>>

\* run, lines 467-688: the outcome of the iteration is persisted (the task
\* done or not), or persisting it fails and run returns the error
IterEnds(l, ending) ==
    IF ending = "err" THEN RunReturns(l, "err", l.state)
    ELSE [l EXCEPT !.pc = "gate",
                   !.iteration = @ + 1,
                   !.task = IF ending = "done" THEN "done" ELSE @]

\* run_iteration's select!, lines 842-866: the child exits, or the hard
\* timeout or a stall kills it, and the iteration ends
LoopIterEnd(i, ending) ==
    /\ w_loops[i].pc = "iter"
    /\ w_loops' = [w_loops EXCEPT ![i] = IterEnds(@, ending)]
    /\ UNCHANGED <<watchFrame, w_pc, w_next, w_permits, w_errors, w_cancel>>

\* run_iteration, lines 868-882: a disk space or git conflict event ends
\* the select! and the child is awaited alone, without a deadline
LoopIterEvent(i) ==
    /\ w_loops[i].pc = "iter"
    /\ w_loops' = [w_loops EXCEPT ![i].pc = "iter_event"]
    /\ UNCHANGED <<watchFrame, w_pc, w_next, w_permits, w_errors, w_cancel>>

\* lines 874-882: proc.child.wait() returns when the child exits by itself
LoopChildExit(i, ending) ==
    /\ w_loops[i].pc = "iter_event"
    /\ w_loops' = [w_loops EXCEPT ![i] = IterEnds(@, ending)]
    /\ UNCHANGED <<watchFrame, w_pc, w_next, w_permits, w_errors, w_cancel>>

\* line 113: drop(permit)
LoopRelease(i) ==
    /\ w_loops[i].pc = "run_returned"
    /\ w_loops' = [w_loops EXCEPT ![i].pc = "released"]
    /\ w_permits' = w_permits + 1
    /\ UNCHANGED <<watchFrame, w_pc, w_next, w_errors, w_cancel>>

\* a failure that stops every loop
RecordFailureAndCancel(l) ==
    [loop |-> [l EXCEPT !.state = "Failed", !.log = Append(@, "loop_failed")],
     cancel |-> TRUE]

\* a failure that is logged and leaves the status as run left it
RecordFailureLogOnly(l) ==
    [loop |-> [l EXCEPT !.log = Append(@, "loop_failed")],
     cancel |-> w_cancel]

\* lines 115-120: an Err result sets the status to failed and pushes a log
\* line; nothing else is touched
RecordFailure(l) ==
    [loop |-> [l EXCEPT !.state = "Failed", !.log = Append(@, "loop_failed")],
     cancel |-> w_cancel]

\* lines 115-122: the task records a failure and completes
LoopFinish(i) ==
    /\ w_loops[i].pc = "released"
    /\ LET r == IF w_loops[i].result = "err" THEN RecordFailure(w_loops[i])
                ELSE [loop |-> w_loops[i], cancel |-> w_cancel]
       IN  /\ w_loops' = [w_loops EXCEPT ![i] =
                              [r.loop EXCEPT !.pc = "finished"]]
           /\ w_cancel' = r.cancel
    /\ UNCHANGED <<watchFrame, w_pc, w_next, w_permits, w_errors>>

\* lines 128-134: join_next yields a completed task
WatchJoin(i) ==
    /\ w_pc = "join"
    /\ w_loops[i].pc = "finished"
    /\ w_loops' = [w_loops EXCEPT ![i].pc = "joined"]
    /\ w_errors' = IF w_loops[i].result = "err" THEN Append(w_errors, i)
                   ELSE w_errors
    /\ UNCHANGED <<watchFrame, w_pc, w_next, w_permits, w_cancel>>

\* lines 128-167: join_next yields None, the flag is set to stop the
\* dashboard and watch returns
WatchReturn ==
    /\ w_pc = "join"
    /\ \A i \in DOMAIN w_loops : w_loops[i].pc = "joined"
    /\ w_cancel' = TRUE
    /\ w_pc' = "returned"
    /\ UNCHANGED <<watchFrame, w_next, w_permits, w_loops, w_errors>>

\* lines 63-92: SIGINT, SIGTERM or the dashboard's quit key
WatchSetCancel ==
    /\ w_pc \in {"spawn", "join"}
    /\ ~w_cancel
    /\ w_cancel' = TRUE
    /\ UNCHANGED <<watchFrame, w_pc, w_next, w_permits, w_loops, w_errors>>

\* the steps of the program: every step but the arrival of a signal and
\* the exit of an agent child that nothing supervises
WatchProgress ==
    \/ WatchSpawn
    \/ \E i \in DOMAIN w_loops : LoopStart(i)
    \/ \E i \in DOMAIN w_loops, ok \in BOOLEAN : LoopSetup(i, ok)
    \/ \E i \in DOMAIN w_loops,
          choice \in {"iterate", "failed", "err"} :
             LoopGate(i, choice)
    \/ \E i \in DOMAIN w_loops, ending \in {"done", "not_done", "err"} :
          LoopIterEnd(i, ending)
    \/ \E i \in DOMAIN w_loops : LoopIterEvent(i)
    \/ \E i \in DOMAIN w_loops : LoopRelease(i)
    \/ \E i \in DOMAIN w_loops : LoopFinish(i)
    \/ \E i \in DOMAIN w_loops : WatchJoin(i)
    \/ WatchReturn

\* the agent child of an unsupervised wait exits
WatchChildExit ==
    \E i \in DOMAIN w_loops, ending \in {"done", "not_done", "err"} :
        LoopChildExit(i, ending)

NextWatch == WatchProgress \/ WatchSetCancel \/ WatchChildExit

SpecWatch == InitWatch /\ [][NextWatch]_vars

\* the tokio runtime polls every task that can make progress and hands out
\* a free permit; the setup of run is bounded by the parse timeout and a
\* supervised iteration by the hard timeout.  Nothing makes the child of
\* an unsupervised wait exit.
SpecWatchFair == SpecWatch /\ WF_vars(WatchProgress)

\* the same with agent children that always exit in the end
SpecWatchExit == SpecWatchFair /\ WF_vars(WatchChildExit)

\* ------------------------------------------------ claims on SpecWatch

\* the permits count the loops between the spawn and the drop
C15_AtMostParallelRunning ==
    /\ Cardinality(Running) <= w_args.parallel
    /\ w_permits >= 0

\* every loop has run and has been joined, and watch has returned
C15_AllFinished ==
    /\ w_pc = "returned"
    /\ \A i \in DOMAIN w_loops :
          w_loops[i].pc = "joined" /\ w_loops[i].result # "none"

\* C15: at no instant are more than P loops inside run, and every one of
\* the N loops is eventually started and finishes, after which the
\* coordinator returns
C15_BoundedParallelismAndCompletion ==
    /\ [](Cardinality(Running) <= w_args.parallel)
    /\ <>C15_AllFinished

\* the loop task of PRD i handles the error run returned
C17_HandlesFailure(i) ==
    /\ i \in DOMAIN w_loops
    /\ w_loops[i].pc = "released"
    /\ w_loops[i].result = "err"
    /\ w_loops'[i].pc = "finished"

C19_GateObservesFlag ==
    [][\A i \in 1..MaxLoops :
          (/\ i \in DOMAIN w_loops
           /\ w_cancel
           /\ w_loops[i].pc = "gate"
           /\ w_loops'[i] # w_loops[i])
          => /\ w_loops'[i].pc = "run_returned"
             /\ w_loops'[i].result = "ok"
             /\ w_loops'[i].state = "Stopped"]_vars

\* C19: once the cancellation flag is set, every loop of the parallel run,
\* the loops still waiting for a permit included, eventually finishes and
\* the coordinator then returns
C19_CancelLeadsToReturn ==
    w_cancel ~> (/\ w_pc = "returned"
                 /\ \A i \in DOMAIN w_loops : w_loops[i].pc = "joined")

\* =========================================================== SpecDrain
\* pick_next_task followed by mark_complete of the task it returned,
\* repeated from any list that passes validation.  pure_in is the list,
\* pure_out remembers the list the process started from, the number of
\* steps taken and the pending set before the last step.
\* the ids of the tasks with the given status
WithStatus(tasks, status) ==
    {tasks[i].id : i \in {j \in DOMAIN tasks : tasks[j].status = status}}

\* a marking that leaves the task in_progress
mark_in_progress(tasks, id) ==
    LET i == FirstWithId(tasks, id)
    IN  IF i = 0 THEN tasks
        ELSE [tasks EXCEPT ![i].status = "InProgress"]

\* StateManager::mark_complete: the first task with the id gets the status
\* complete and a completion time
mark_complete(tasks, id) ==
    LET i == FirstWithId(tasks, id)
    IN  IF i = 0 THEN tasks
        ELSE [tasks EXCEPT ![i].status = "Complete",
                           ![i].completed_at = "t1"]

\* (a list that passes validation has no more tasks than there are ids)
InitDrain ==
    /\ \E n \in StoredLens : pure_in \in [1..n -> Task]
    /\ validate_task_list(pure_in) = "ok"
    /\ pure_out = [op |-> "drain", start |-> pure_in, steps |-> 0,
                   pending_before |-> WithStatus(pure_in, "Pending")]
    /\ IdleLoop /\ IdleStore /\ IdleIter /\ IdleWatch
    /\ tasks_file = NoFile

ApplyPickAndComplete ==
    /\ pick_next_task(pure_in) # 0
    /\ pure_in' = mark_complete(pure_in,
                                pure_in[pick_next_task(pure_in)].id)
    /\ pure_out' = [pure_out EXCEPT
                       !.steps = @ + 1,
                       !.pending_before = WithStatus(pure_in, "Pending")]
    /\ UNCHANGED <<loopVars, storeVars, iterVars, watchVars>>

NextDrain == ApplyPickAndComplete

SpecDrain == InitDrain /\ [][NextDrain]_vars

\* ------------------------------------------------ claims on SpecDrain

\* each step takes one task out of the pending set, and there are no more
\* steps than tasks pending at the start
C22_PendingShrinks ==
    /\ pure_out.steps > 0 =>
          /\ WithStatus(pure_in, "Pending") \subseteq pure_out.pending_before
          /\ WithStatus(pure_in, "Pending") # pure_out.pending_before
    /\ pure_out.steps + Cardinality(WithStatus(pure_in, "Pending"))
          = Cardinality(WithStatus(pure_out.start, "Pending"))

\* C22 as stated: every step strictly reduces the pending set, and when
\* nothing more can be picked every task is complete if and only if the
\* list the process started from holds no failed task
C22_DrainsIffNoFailed ==
    /\ C22_PendingShrinks
    /\ pick_next_task(pure_in) = 0 =>
          (all_tasks_complete(pure_in)
             <=> WithStatus(pure_out.start, "Failed") = {})

\* C22: every step strictly reduces the pending set, and when nothing more
\* can be picked every task is complete if and only if the list the
\* process started from holds no failed and no in_progress task
C22_DrainsIffNoFailedNorInProgress ==
    /\ C22_PendingShrinks
    /\ pick_next_task(pure_in) = 0 =>
          (all_tasks_complete(pure_in)
             <=> /\ WithStatus(pure_out.start, "Failed") = {}
                 /\ WithStatus(pure_out.start, "InProgress") = {})

\* two pending tasks, one depending on the other, drained in two steps
C22_Witness ==
    /\ pure_out.op = "drain"
    /\ pure_out.steps = 2
    /\ all_tasks_complete(pure_in)
    /\ \E i \in DOMAIN pure_out.start : pure_out.start[i].depends_on # <<>>


\* ============================================================ SpecEmit
\* run_iteration and its watcher over enough check intervals for the event
\* channel to fill up, with the end of run_iteration in two steps (the
\* watcher handle is dropped at line 891, the receiver when the function
\* returns) and a record of the watcher's ticks in pure_out: whether the
\* stall condition held at the tick before the last one and at the last
\* one, whether the last one put a stall event on its list of events to
\* send, and how many ticks did so.

MaxTicks == 8

NoTicks == [op |-> "ticks", prev_stalled |-> FALSE, stalled |-> FALSE,
            emitted |-> FALSE, emissions |-> 0]

\* the hard timeout is the longest one, so that the iterations that go on
\* to the stall checks of many ticks are the ones explored
InitEmit ==
    /\ InitRun
    /\ timeout_secs = MaxClock
    /\ pure_in = <<>>
    /\ pure_out = NoTicks

WatcherTickEmit ==
    /\ run_watcher_tick
    /\ LET emitted == "StallDetected" \in Range(watcher_sends')
       IN  pure_out' = [op |-> "ticks",
                        prev_stalled |-> pure_out.stalled,
                        stalled |-> Stalled,
                        emitted |-> emitted,
                        emissions |-> pure_out.emissions
                                      + (IF emitted THEN 1 ELSE 0)]
    /\ UNCHANGED emitFrame

\* lines 889-891: the readers are joined (the pipes of a terminated child
\* are closed) and the watcher handle is dropped
JoinAndShutdown ==
    /\ iter_pc = "drain"
    /\ child # "running"
    /\ shutdown' = TRUE
    /\ iter_pc' = "log"
    /\ UNCHANGED <<runFrame, clock, child, child_end, exit_success,
                   last_output_ts, collected, event_rx, watcher_pc,
                   watcher_sends, stall_fired, tick_due, outcome,
                   iter_result>>

\* a return that leaves the receiver of the event channel alive
WriteLogAndKeepReceiver ==
    /\ iter_pc = "log"
    /\ iter_result' = IterationResult
    /\ iter_pc' = "returned_receiver_kept"
    /\ UNCHANGED <<runFrame, clock, child, child_end, exit_success,
                   last_output_ts, collected, event_rx, watcher_pc,
                   watcher_sends, stall_fired, tick_due, shutdown,
                   outcome>>

\* lines 894-916: the log is written and run_iteration returns, which
\* drops the receiver of the event channel
WriteLogAndReturn ==
    /\ iter_pc = "log"
    /\ event_rx' = <<>>
    /\ iter_result' = IterationResult
    /\ iter_pc' = "returned"
    /\ UNCHANGED <<runFrame, clock, child, child_end, exit_success,
                   last_output_ts, collected, watcher_pc, watcher_sends,
                   stall_fired, tick_due, shutdown, outcome>>

NextEmit ==
    \/ ChildOutput
    \/ \E success \in BOOLEAN : ChildExit(success)
    \/ ClockAdvance(MaxTicks)
    \/ WatcherTickEmit
    \/ WatcherSend
    \/ WatcherShutdown
    \/ \E wait_ok \in BOOLEAN : SelectChildExit(wait_ok)
    \/ SelectTimeout
    \/ SelectEvent
    \/ \E wait_ok \in BOOLEAN : WaitChild(wait_ok)
    \/ JoinAndShutdown
    \/ WriteLogAndReturn

SpecEmit == InitEmit /\ [][NextEmit]_vars

\* the runtime runs a task that is ready: the rest of run_iteration and
\* the watcher task
SpecEmitFair ==
    /\ SpecEmit
    /\ WF_vars(WriteLogAndReturn)
    /\ WF_vars(WatcherSend)
    /\ WF_vars(WatcherShutdown)

\* C25: the watcher never blocks on event emission: whenever it has a
\* detected event to emit it can take its next step, the event being
\* dropped when the channel already holds its full capacity of undelivered
\* events
C25_NeverBlocksOnEmission ==
    watcher_pc = "sending" => ENABLED WatcherSend

\* C26: after the watcher handle is dropped, which run_iteration does on
\* each of its ways out, the watcher begins no further tick, completes at
\* most the tick it is in and exits, whatever the event channel holds and
\* whether the receiver is still alive or dropped
C26_ShutdownStopsWatcher ==
    /\ [][shutdown => /\ \/ watcher_sends' = watcher_sends
                         \/ /\ watcher_sends # <<>>
                            /\ watcher_sends' = Tail(watcher_sends)
                      /\ tick_due => tick_due']_vars
    /\ [](iter_pc \in {"log", "returned"} => shutdown)
    /\ shutdown ~> (watcher_pc = "stopped")

\* the handle is dropped while the watcher waits in send().await on a full
\* channel whose receiver is alive and no longer receiving
C26_Witness ==
    /\ shutdown
    /\ iter_pc = "log"
    /\ watcher_pc = "sending"
    /\ Len(event_rx) = EVENT_CHANNEL_CAPACITY

\* C27: over any sequence of ticks and output updates, a tick of the
\* watcher emits stall_detected exactly when the silence has reached the
\* stall timeout at this tick and had not at the tick before (or there was
\* no tick before): on the first tick of a stall window, on no later tick
\* of the same window, and again only after a tick at which the condition
\* was false
C27_OneStallEventPerWindow ==
    pure_out.emitted <=> (pure_out.stalled /\ ~pure_out.prev_stalled)

\* the second stall event of an iteration, the child having written
\* output after the first one and fallen silent again, and a tick in
\* between that found the condition false
C27_Witness ==
    /\ pure_out.emitted
    /\ pure_out.emissions = 2
    /\ collected # <<>>
    /\ Len(SelectSeq(event_rx, LAMBDA e : e = "StallDetected")) = 2


\* ========================================================== SpecStreak
\* orchestrator::run on runs long enough for a failure streak to go through
\* the fallback list more than once: the steps are those of Spec, the
\* iteration cap is above MaxIterationsArg and the task file, when there
\* is one, holds the single pending task A.
StreakIterations == MaxIterationsArg + 2

InitStreak ==
    /\ IdlePure /\ IdleStore /\ IdleIter /\ IdleWatch
    /\ pc = "start"
    /\ \E agent \in PrimaryAgents, max_failures \in {1, StreakIterations} :
          args = [agent |-> agent, max_iterations |-> StreakIterations,
                  max_failures |-> max_failures, dry_run |-> FALSE]
    /\ available \in AvailableSets
    /\ <<args.agent, available>> \in AgentSetups
    /\ tasks_file \in
          {NoFile,
           File(Serialize(TaskList(
              <<[id |-> "A", priority |-> 1, status |-> "Pending",
                 depends_on |-> <<>>, completed_at |-> None]>>)))}
    /\ task_list = TaskList(<<>>)
    /\ lock_file = NoFile
    /\ state_dir = FALSE
    /\ progress_md = <<>>
    /\ hooks = <<>>
    /\ loop_state = "Starting"
    /\ iteration = 0
    /\ consecutive_failures = 0
    /\ active_agent_name = args.agent
    /\ cancel_flag = FALSE
    /\ task = NoTask
    /\ tasks_snapshot_before = <<>>
    /\ logs = {}
    /\ run_result = "none"
    /\ last_iter = NoIter
    /\ iterations_run = 0
    /\ setup = NoSetup

SpecStreak == InitStreak /\ [][Next]_vars

\* the backends of the fallback order that are available, in that order
AvailableInOrder ==
    SelectSeq(FALLBACK_ORDER, LAMBDA b : b \in available)

\* the journal's fallback entries, in order
C40_Switches ==
    SelectSeq(progress_md, LAMBDA e : e.kind = "fallback")

\* the backends of the iterations of a run in which no task was completed:
\* the requested one, then the target of each switch
C40_Used ==
    LET all == <<args.agent>>
               \o [n \in DOMAIN C40_Switches |-> C40_Switches[n].to]
    IN  SubSeq(all, 1, IF iterations_run < Len(all) THEN iterations_run
                       ELSE Len(all))

C40_InStreak ==
    /\ pc \in {"gate", "running"}
    /\ Len(AvailableInOrder) >= 2
    /\ \A n \in DOMAIN progress_md : progress_md[n].kind # "task_complete"

\* C40: in a failure streak any k consecutive iterations use k different
\* backends, k being the number of available backends of the fallback
\* order.
C40_StreakRotatesThroughAllBackends ==
    C40_InStreak =>
        LET k == Len(AvailableInOrder)
        IN  \A n \in DOMAIN C40_Used :
                n + k - 1 <= Len(C40_Used) =>
                    Cardinality({C40_Used[m] : m \in n..(n + k - 1)}) = k

\* C40: in a failure streak with at least two available backends every
\* iteration uses an available backend other than the one of the
\* iteration before it, namely the first such backend of the fallback
\* order: from its second iteration on the streak alternates between the
\* first two available backends of the order, and a third one is used
\* only as the requested backend of the first iteration.
C40_StreakAlternatesBetweenFirstTwo ==
    C40_InStreak =>
        /\ \A n \in DOMAIN C40_Used :
              /\ n > 1 => C40_Used[n] # C40_Used[n - 1]
              /\ n > 1 => C40_Used[n] \in {AvailableInOrder[1],
                                           AvailableInOrder[2]}
              /\ n > 1 => (C40_Used[n] = AvailableInOrder[2]
                              <=> C40_Used[n - 1] = AvailableInOrder[1])
        /\ Range(C40_Used) \subseteq available

\* a streak of four iterations on a host with three available backends
C40_Witness ==
    /\ C40_InStreak
    /\ iterations_run = StreakIterations
    /\ C40_Used = <<"claude", "codex", "gemini", "codex">>


\* ------------------------------------------- more claims on SpecWatch

TerminalStates == {"Complete", "Failed", "Stopped"}

\* C39: once the coordinator has joined the loop tasks (and already when a
\* loop task has finished), the status of every such loop is complete,
\* failed or stopped, whether run returned normally or with an error; when
\* watch returns no loop is left in starting, parsing or running.
C39_JoinedLoopsAreTerminal ==
    /\ \A i \in DOMAIN w_loops :
          w_loops[i].pc \in {"finished", "joined"}
             => w_loops[i].state \in TerminalStates
    /\ w_pc = "returned" =>
          \A i \in DOMAIN w_loops :
             /\ w_loops[i].pc = "joined"
             /\ w_loops[i].state \in TerminalStates
             /\ w_loops[i].result = "err" => w_loops[i].state = "Failed"

\* watch has returned after a loop whose run failed in its setup and a
\* loop whose run returned normally
C39_Witness ==
    /\ w_pc = "returned"
    /\ \E i \in DOMAIN w_loops :
          /\ w_loops[i].result = "err"
          /\ w_loops[i].log = <<"loop_failed">>
    /\ \E i \in DOMAIN w_loops :
          w_loops[i].result = "ok" /\ w_loops[i].state = "Complete"


\* ========================================================= SpecReaders
\* run_iteration as its two reader tasks see it: the child's stdout and
\* stderr are read line by line, every line is collected and pushed to the
\* recent-log ring of the shared status, the orchestrator pushes lines of
\* its own, and after the select the readers are joined, the log file is
\* written and the result is made.  pure_in holds what the child does
\* (the lines of each stream, how the select ends, the exit status, what
\* happens to the log file), pure_out the state of the iteration.
\*   pc       "select", "drain" (select done, readers being joined),
\*            "joined", "returned"
\*   pushed   every line ever pushed to the ring, in push order
\* The exit status is an input only where the child exited and the fault
\* of the log file only where a log file is written.

MaxLines == 2

\* if self.recent_logs.len() >= 500
LOG_CAPACITY == 500

Line(src, n) ==
    [src |-> src, n |-> n, prefix |-> IF src = "stderr" THEN "[err] " ELSE ""]

StreamOf(src, len) == [i \in 1..len |-> i]

\* a ring that pushes at the front
push_log_front(ring, line) ==
    IF Len(ring) >= LOG_CAPACITY THEN <<line>> \o Tail(ring)
    ELSE <<line>> \o ring

\* LoopStatus::push_log
push_log(ring, line) ==
    Append(IF Len(ring) >= LOG_CAPACITY THEN Tail(ring) ELSE ring, line)

ReaderEndings == {"exit", "event_exit", "event_wait_err", "wait_err",
                  "timeout", "stall"}

LogFaults == {"none", "create", "write"}

\* the ring holds what earlier iterations of the loop left in it
OldRings ==
    {[i \in 1..n |-> [src |-> "old", n |-> i, prefix |-> ""]] :
        n \in {0, LOG_CAPACITY - 1, LOG_CAPACITY}}

InitReaders ==
    /\ \E no \in 0..MaxLines, ne \in 0..MaxLines, e \in ReaderEndings,
          ok \in BOOLEAN, f \in LogFaults, ring \in OldRings :
       /\ e \notin {"exit", "event_exit"} => ok
       /\ e \in {"wait_err", "timeout", "stall"} => f = "none"
       /\ pure_in = [stdout |-> no, stderr |-> ne, ending |-> e,
                     success |-> ok, log_fault |-> f,
                     old_lines |-> Len(ring)]
       /\ pure_out = [op |-> "readers", pc |-> "select", out_read |-> 0,
                      err_read |-> 0, recent_logs |-> ring,
                      pushed |-> ring, orchestrator_pushed |-> FALSE,
                      log_files |-> <<>>, result |-> "none"]
    /\ IdleLoop /\ tasks_file = NoFile
    /\ IdleStore /\ IdleIter /\ IdleWatch

readersFrame == <<pure_in, loopVars, storeVars, iterVars, watchVars>>

ReadersAt(pcs) == pure_out.op = "readers" /\ pure_out.pc \in pcs

\* stdout_task, one turn of its while loop (lines 798-811)
ReadStdoutLine ==
    /\ ReadersAt({"select", "drain"})
    /\ pure_out.out_read < pure_in.stdout
    /\ LET line == Line("stdout", pure_out.out_read + 1)
       IN  pure_out' = [pure_out EXCEPT
                           !.out_read = @ + 1,
                           !.recent_logs = push_log(@, line),
                           !.pushed = Append(@, line)]
    /\ UNCHANGED readersFrame

\* stderr_task, one turn of its while loop (lines 822-835)
ReadStderrLine ==
    /\ ReadersAt({"select", "drain"})
    /\ pure_out.err_read < pure_in.stderr
    /\ LET line == Line("stderr", pure_out.err_read + 1)
       IN  pure_out' = [pure_out EXCEPT
                           !.err_read = @ + 1,
                           !.recent_logs = push_log(@, line),
                           !.pushed = Append(@, line)]
    /\ UNCHANGED readersFrame

\* log_to_status, or the coordinator's push of a failure (watch 115-120)
OrchestratorPush ==
    /\ ReadersAt({"select", "drain", "joined", "returned"})
    /\ ~pure_out.orchestrator_pushed
    /\ LET line == Line("orchestrator", 1)
       IN  pure_out' = [pure_out EXCEPT
                           !.orchestrator_pushed = TRUE,
                           !.recent_logs = push_log(@, line),
                           !.pushed = Append(@, line)]
    /\ UNCHANGED readersFrame

\* lines 842-886: the select ends
SelectEnds ==
    /\ ReadersAt({"select"})
    /\ pure_out' = [pure_out EXCEPT !.pc = "drain"]
    /\ UNCHANGED readersFrame

\* a join that does not wait for the readers
JoinAtOnce ==
    /\ ReadersAt({"drain"})
    /\ pure_out' = [pure_out EXCEPT !.pc = "joined"]
    /\ UNCHANGED readersFrame

\* lines 889-890: stdout_task.await and stderr_task.await; a reader ends
\* at the end of its stream
JoinReaders ==
    /\ ReadersAt({"drain"})
    /\ pure_out.out_read = pure_in.stdout
    /\ pure_out.err_read = pure_in.stderr
    /\ pure_out' = [pure_out EXCEPT !.pc = "joined"]
    /\ UNCHANGED readersFrame

\* lines 894-916: outcome?, the log file, the exit check
LogAndResult ==
    /\ ReadersAt({"joined"})
    /\ LET e == pure_in.ending
           is_err == e \in {"wait_err", "timeout", "stall"}
           exit_code == IF e \in {"exit", "event_exit"}
                        THEN IF pure_in.success THEN "0" ELSE "1"
                        ELSE None
           content == [exit_code |-> exit_code,
                       stdout |-> StreamOf("stdout", pure_out.out_read),
                       stderr |-> StreamOf("stderr", pure_out.err_read)]
           written == IF pure_in.log_fault = "none"
                      THEN <<[complete |-> TRUE, content |-> content]>>
                      ELSE IF pure_in.log_fault = "write"
                      THEN <<[complete |-> FALSE, content |-> None]>>
                      ELSE <<>>
           success == e \in {"exit", "event_exit"} /\ pure_in.success
       IN  pure_out' = [pure_out EXCEPT
                           !.pc = "returned",
                           !.log_files = IF is_err THEN @ ELSE @ \o written,
                           !.result =
                              IF is_err THEN "err_" \o e
                              ELSE IF ~success /\ pure_out.out_read = 0
                              THEN "err_exit_code"
                              ELSE "ok"]
    /\ UNCHANGED readersFrame

NextReaders ==
    \/ ReadStdoutLine
    \/ ReadStderrLine
    \/ OrchestratorPush
    \/ SelectEnds
    \/ JoinReaders
    \/ LogAndResult

SpecReaders == InitReaders /\ [][NextReaders]_vars

ReadersReturned == pure_out.op = "readers" /\ pure_out.pc = "returned"

ReadersDone ==
    /\ pure_out.out_read = pure_in.stdout
    /\ pure_out.err_read = pure_in.stderr

C32_FullLog ==
    [complete |-> TRUE,
     content |-> [exit_code |-> IF pure_in.success THEN "0" ELSE "1",
                  stdout |-> StreamOf("stdout", pure_in.stdout),
                  stderr |-> StreamOf("stderr", pure_in.stderr)]]

\* C32 as stated: an iteration whose child ended on its own writes exactly
\* one log file with the exit code and the whole of stdout and stderr, and
\* only after both readers have finished; one ended by the timeout or a
\* stall kill writes none.
C32_OwnExitWritesOneLog ==
    pure_out.op = "readers" =>
        /\ pure_out.log_files # <<>> => ReadersDone
        /\ ReadersReturned /\ pure_in.ending \in {"exit", "event_exit"}
              => pure_out.log_files = <<C32_FullLog>>
        /\ ReadersReturned /\ pure_in.ending \in {"timeout", "stall"}
              => pure_out.log_files = <<>>

\* C32: an iteration whose child ended on its own writes at most one log
\* file, and exactly one with the exit code and the whole of stdout and
\* stderr unless creating or writing the file fails, which run_iteration
\* ignores; it writes only after both readers have finished, also when the
\* iteration is then failed for a non-success exit with empty stdout; an
\* iteration ended by the timeout or a stall kill writes none.
C32_OwnExitWritesOneLogUnlessFileFails ==
    pure_out.op = "readers" =>
        /\ pure_out.log_files # <<>> => ReadersDone /\ ReadersReturned
        /\ Len(pure_out.log_files) <= 1
        /\ ReadersReturned /\ pure_in.ending \in {"exit", "event_exit"}
              => /\ pure_in.log_fault = "none"
                    => pure_out.log_files = <<C32_FullLog>>
                 /\ pure_in.log_fault = "create" => pure_out.log_files = <<>>
                 /\ pure_in.log_fault = "write"
                    => /\ Len(pure_out.log_files) = 1
                       /\ ~pure_out.log_files[1].complete
        /\ ReadersReturned /\ pure_in.ending \in {"timeout", "stall"}
              => pure_out.log_files = <<>>

C32_Witness ==
    /\ ReadersReturned
    /\ pure_in.ending = "exit" /\ ~pure_in.success /\ pure_in.stdout = 0
    /\ pure_in.stderr = MaxLines
    /\ pure_out.result = "err_exit_code"
    /\ pure_out.log_files = <<C32_FullLog>>

\* the last n elements of s
LastOf(s, n) ==
    IF Len(s) <= n THEN s ELSE SubSeq(s, Len(s) - n + 1, Len(s))

\* C35: whatever the order of the pushes of the stdout reader, the stderr
\* reader and the orchestrator, the recent-log ring never holds more than
\* 500 lines and holds exactly the most recently pushed lines in the order
\* they were pushed (so the oldest line is the one evicted); the lines of
\* stderr, and only they, carry the "[err] " prefix.
C35_RingHoldsLatestInOrder ==
    pure_out.op = "readers" =>
        /\ Len(pure_out.recent_logs) <= LOG_CAPACITY
        /\ pure_out.recent_logs = LastOf(pure_out.pushed, LOG_CAPACITY)
        /\ \A i \in DOMAIN pure_out.recent_logs :
              LET l == pure_out.recent_logs[i]
              IN  l.prefix = (IF l.src = "stderr" THEN "[err] " ELSE "")
        /\ Len(pure_out.pushed) =
              pure_in.old_lines + pure_out.out_read + pure_out.err_read
                 + (IF pure_out.orchestrator_pushed THEN 1 ELSE 0)

\* the ring was full, lines of all three writers were pushed in between
\* each other and the oldest lines are gone
C35_Witness ==
    /\ pure_out.op = "readers"
    /\ Len(pure_out.pushed) >= LOG_CAPACITY + 3
    /\ Len(pure_out.recent_logs) = LOG_CAPACITY
    /\ pure_out.recent_logs[1].src = "old"
    /\ pure_out.recent_logs[1].n = Len(pure_out.pushed) - LOG_CAPACITY + 1
    /\ pure_out.recent_logs[LOG_CAPACITY - 2].src = "stderr"
    /\ pure_out.recent_logs[LOG_CAPACITY - 1].src = "orchestrator"
    /\ pure_out.recent_logs[LOG_CAPACITY].src = "stdout"


\* =========================================================== SpecSpawn
\* run_iteration from agent.spawn on: the child runs, its pipes are taken
\* out of the handle, and only then the watcher is started and the select
\* entered (SpecIter starts there).  Whether the child has a stdout and a
\* stderr pipe is decided by the Agent implementation that spawned it.
\*   iter_pc     "spawned" before the pipes are taken
\*   watcher_pc  "not_started" before start_watcher

InitSpawn ==
    /\ clock = 0
    /\ timeout_secs \in 1..MaxClock
    /\ stall_timeout_secs \in 1..MaxClock
    /\ low_disk \in BOOLEAN
    /\ git_conflicts \in BOOLEAN
    /\ child = "running"
    /\ child_end = 0
    /\ exit_success = FALSE
    /\ last_output_ts = 0
    /\ collected = <<>>
    /\ event_rx = <<>>
    /\ watcher_pc = "not_started"
    /\ watcher_sends = <<>>
    /\ stall_fired = FALSE
    /\ tick_due = FALSE
    /\ shutdown = FALSE
    /\ iter_pc = "spawned"
    /\ outcome = "none"
    /\ iter_result = "none"
    /\ IdleStore /\ IdleLoop /\ tasks_file = NoFile
    /\ IdleWatch /\ IdlePure

\* lines 773-788: proc.child.stdout.take().context(..)?, the same for
\* stderr, then start_watcher.  The `?` returns the error and drops proc;
\* dropping the handle leaves the child alone
TakePipes(stdout_piped, stderr_piped) ==
    /\ iter_pc = "spawned"
    /\ IF stdout_piped /\ stderr_piped
       THEN /\ iter_pc' = "select"
            /\ watcher_pc' = "await"
            /\ tick_due' = TRUE
            /\ UNCHANGED iter_result
       ELSE /\ iter_pc' = "returned"
            /\ iter_result' = IF stdout_piped THEN "err_stderr_pipe_missing"
                              ELSE "err_stdout_pipe_missing"
            /\ UNCHANGED <<watcher_pc, tick_due>>
    /\ UNCHANGED <<runFrame, clock, child, child_end, exit_success,
                   last_output_ts, collected, event_rx, watcher_sends,
                   stall_fired, shutdown, outcome>>

NextSpawn ==
    \/ \E stdout_piped \in BOOLEAN, stderr_piped \in BOOLEAN :
          TakePipes(stdout_piped, stderr_piped)
    \/ iter_pc = "spawned" /\ \E success \in BOOLEAN : ChildExit(success)
    \/ iter_pc # "spawned" /\ NextIter

SpecSpawn == InitSpawn /\ [][NextSpawn]_vars

IterationErrors ==
    {"err_wait", "err_timed_out", "err_stalled", "err_exit_code",
     "err_stdout_pipe_missing", "err_stderr_pipe_missing"}

PARSER_FALLBACK_ORDER == <<"claude", "codex", "gemini", "opencode">>

ParseBackends == Range(PARSER_FALLBACK_ORDER)

\* the for loop over FALLBACK_ORDER from its k-th entry on
RECURSIVE try_fallbacks(_, _, _, _, _)
try_fallbacks(k, agent, on_path, works, tried) ==
    IF k > Len(PARSER_FALLBACK_ORDER)
    THEN [tried |-> tried, result |-> "err_all_agents_failed"]
    ELSE LET fallback == PARSER_FALLBACK_ORDER[k]
         IN  IF fallback = agent \/ fallback \notin on_path
             THEN try_fallbacks(k + 1, agent, on_path, works, tried)
             ELSE IF fallback \in works
             THEN [tried |-> Append(tried, fallback), result |-> fallback]
             ELSE try_fallbacks(k + 1, agent, on_path, works,
                                Append(tried, fallback))

run_agent(agent, on_path, works) ==
    IF agent \in works THEN [tried |-> <<agent>>, result |-> agent]
    ELSE try_fallbacks(1, agent, on_path, works, <<agent>>)

InitParse ==
    /\ \E agent \in ParseBackends, on_path \in SUBSET ParseBackends :
       \E works \in SUBSET on_path :
          pure_in = [agent |-> agent, on_path |-> on_path, works |-> works]
    /\ pure_out = [op |-> "none"]
    /\ IdleLoop /\ tasks_file = NoFile
    /\ IdleStore /\ IdleIter /\ IdleWatch

RunAgent ==
    /\ pure_out.op = "none"
    /\ LET r == run_agent(pure_in.agent, pure_in.on_path, pure_in.works)
       IN  pure_out' = [op |-> "run_agent", tried |-> r.tried,
                        result |-> r.result]
    /\ UNCHANGED <<pure_in, loopVars, storeVars, iterVars, watchVars>>

NextParse == RunAgent

SpecParse == InitParse /\ [][NextParse]_vars

IndexIn(order, x) == CHOOSE i \in DOMAIN order : order[i] = x

InOrderOf(order, s) ==
    \A i \in DOMAIN s : \A j \in DOMAIN s :
        i < j => IndexIn(order, s[i]) < IndexIn(order, s[j])

\* everything of the statement but the order of the fallbacks
C34_TriesAndResult(order) ==
    pure_out.op = "run_agent" =>
        LET tried == pure_out.tried
            others == Tail(tried)
        IN  /\ tried # <<>> /\ tried[1] = pure_in.agent
            /\ Range(others) \subseteq pure_in.on_path \ {pure_in.agent}
            /\ InOrderOf(order, others)
            /\ \A i \in 1..(Len(tried) - 1) : tried[i] \notin pure_in.works
            /\ IF pure_out.result = "err_all_agents_failed"
               THEN /\ Range(tried) \cap pure_in.works = {}
                    /\ (pure_in.on_path \ {pure_in.agent})
                          \subseteq Range(others)
               ELSE /\ pure_out.result = tried[Len(tried)]
                    /\ pure_out.result \in pure_in.works

\* C34: parsing tries the requested backend first and then every other
\* available backend at most once, in the order of the orchestrator's
\* fallback list [codex, gemini, claude, opencode], returns the first
\* successful output, and fails only when the requested backend and every
\* available other backend failed.
C34_FallbackInOrchestratorOrder == C34_TriesAndResult(FALLBACK_ORDER)


====
